---- MODULE Spec2Model ----
(***************************************************************************)
(* Model of the Zone-Recovery Risk Manager (src/src/risk_manager.py) and   *)
(* of the Toxic-Asset Ledger (src/src/core/bad_bank.py).                   *)
(*                                                                         *)
(* Units.  Time is in whole seconds.  Prices, distances and ATR values are *)
(* integers in units of the instrument's point (XAUUSD: 0.01, EURUSD:      *)
(* 0.00001).  Volumes are in thousandths of a lot.  Money is in cents.     *)
(* Ratios (volatility_ratio, volatility_scale, vpin) are in hundredths or  *)
(* thousandths as stated at their definitions.                             *)
(***************************************************************************)
EXTENDS Integers, Sequences, FiniteSets, TLC

\* ------------------------------------------------------------------------
\* Bounds of the model
\* ------------------------------------------------------------------------
StartTime == 5000
MaxElapsed == 10
MaxCalls == 2
MaxSeqCalls == 3
MaxGateCalls == 2
MaxSpreadCalls == 4
MaxObjs == 3
MaxDeposits == 2
MaxPasses == 3

Threads == {1, 2}
TickSteps == {10}
MaxTickCalls == 6
MaxFlowCalls == 3
MaxLevels == 3
MaxGroup == 4
MaxAttempts == 3
MaxWalls == 2
AllSymbols == {"XAUUSD", "EURUSD"}

\* ------------------------------------------------------------------------
\* Program constants
\* ------------------------------------------------------------------------
PendingWindow == 10
max_hedges == 10
min_age_seconds == 3
global_position_cap == 10
max_spread_multiplier_x10 == 25
SpreadHistoryCap == 50
FreshTickMaxAge == 10
OffsetRecalcPeriod == 3600
OffsetThreshold == 600
AtrBaseline == 2
window_seconds == 5
max_buffer_size == 100
initial_delay == 5          \* tenths of a second
backoff_multiplier == 2
max_total_time == 100       \* tenths of a second
POSITION_GONE == 10036
\* AdaptiveRisk (src/constants.py is not part of the sources)
COOLDOWN_MIN == 5
COOLDOWN_BASE == 10
COOLDOWN_HIGH == 15
COOLDOWN_MAX == 30
VOL_LOW_x100 == 50
VOL_HIGH_x100 == 150
VOL_EXTREME_x100 == 300
ZONE_MAX == 100

\* ------------------------------------------------------------------------
\* Small helpers
\* ------------------------------------------------------------------------
Abs(x) == IF x < 0 THEN 0 - x ELSE x
Max(a, b) == IF a >= b THEN a ELSE b
Min(a, b) == IF a <= b THEN a ELSE b

RECURSIVE SumSeq(_)
SumSeq(s) == IF s = <<>> THEN 0 ELSE Head(s) + SumSeq(Tail(s))

\* "XAU" in symbol or "GOLD" in symbol
IsMetal(symbol) == symbol = "XAUUSD"

\* Point size of the symbol expressed in price units per dollar: the number
\* of points in 1.0 of price.
PointsPerUnit(symbol) == IF IsMetal(symbol) THEN 100 ELSE 100000


\* Optional values: None is the empty sequence, a present value <<x>>.
None == <<>>
Some(x) == <<x>>
IsNone(o) == o = <<>>
Val(o) == o[1]

\* ------------------------------------------------------------------------
\* Inputs of the Risk Manager calls
\* ------------------------------------------------------------------------
OpenTime == StartTime - 10

Pos(tk, ty, tm, pr, vol) ==
    [ticket |-> tk, type |-> ty, time |-> tm, price_open |-> pr, volume |-> vol]

\* One BUY at 2000.00 opened 10 s before the start, bid 3.00 below it.
GoodCall ==
    [symbol |-> "XAUUSD",
     positions |-> << Pos(1, 0, OpenTime, 200000, 10) >>,
     bid |-> 199700, ask |-> 199710, spread |-> 10,
     tick_age |-> Some(0),
     strict_entry |-> TRUE,
     atr_val |-> Some(200),
     rsi_value |-> Some(50),
     volatility_ratio |-> 100,
     vpin |-> 10, reynolds |-> 0,
     max_hedges_override |-> None,
     plan_trigger |-> 0]

EmptyCall   == [GoodCall EXCEPT !.positions = <<>>]
NoRsiCall   == [GoodCall EXCEPT !.rsi_value = None]
NearCall    == [GoodCall EXCEPT !.bid = 199900, !.ask = 199910]
WideCall    == [GoodCall EXCEPT !.spread = 40]
StaleCall   == [GoodCall EXCEPT !.tick_age = Some(15)]
HighVolCall == [GoodCall EXCEPT !.volatility_ratio = 250]
\* The same BUY and a later SELL hedge 1.60 below it, the ask back above the
\* anchor's open price.
TwoPosCall  == [GoodCall EXCEPT
                  !.positions = << Pos(1, 0, OpenTime, 200000, 10),
                                   Pos(2, 1, OpenTime + 5, 199840, 10) >>,
                  !.bid = 200290, !.ask = 200300]

\* A BUY of another symbol at 1.10000, bid 30 pips below it
EurCall     == [GoodCall EXCEPT
                  !.symbol = "EURUSD",
                  !.positions = << Pos(2, 0, OpenTime, 110000, 10) >>,
                  !.bid = 109700, !.ask = 109710]

\* A wide spread, a group at its overridden cap and a bid too near the open
MultiFailCall == [GoodCall EXCEPT !.spread = 40, !.max_hedges_override = Some(1),
                                  !.bid = 199900, !.ask = 199910]
\* The oscillator overbought on a SELL trigger, oversold on a BUY trigger
ElasticSellCall == [GoodCall EXCEPT !.rsi_value = Some(75)]
ElasticBuyCall  == [TwoPosCall EXCEPT !.rsi_value = Some(25)]
\* The group of two with the bid below the lower boundary: a SELL trigger
\* after a SELL
DoubleDownCall == [TwoPosCall EXCEPT !.bid = 199630, !.ask = 199640]
\* One SELL at 2000.00 with the ask 3.00 above it, and the same with a later
\* BUY hedge
SellAnchorCall == [GoodCall EXCEPT
                     !.positions = << Pos(1, 1, OpenTime, 200000, 10) >>,
                     !.bid = 200290, !.ask = 200300]
SellDoubleCall == [GoodCall EXCEPT
                     !.positions = << Pos(1, 1, OpenTime, 200000, 10),
                                      Pos(2, 0, OpenTime + 5, 200160, 10) >>,
                     !.bid = 200390, !.ask = 200400]
\* A tick that is 700 s old
Stale700Call == [GoodCall EXCEPT !.tick_age = Some(700)]

\* The calls of the concurrent specification, and those of the sequential one
RMCalls == {GoodCall, EmptyCall, NearCall, NoRsiCall}
SeqCalls == {GoodCall, EmptyCall, NoRsiCall, NearCall, WideCall, StaleCall, HighVolCall,
             TwoPosCall}
\* The calls of the admission-gate and trigger scenarios
GateCalls == {GoodCall, NearCall, MultiFailCall, ElasticSellCall, ElasticBuyCall,
              DoubleDownCall, SellAnchorCall, SellDoubleCall, StaleCall, Stale700Call,
              TwoPosCall}
\* The same BUY evaluated under each volatility ratio, in hundredths
VolRatios == {100, 200, 225, 250, 300, 400}
VolCalls == { [GoodCall EXCEPT !.volatility_ratio = r] : r \in VolRatios }
\* A calm market (ATR 0.50, a quarter of the baseline): the BUY alone, and
\* the BUY with its SELL hedge of the start time and the ask back above the
\* anchor's open price
LowAtrCall == [GoodCall EXCEPT !.atr_val = Some(50)]
LowAtrSecondCall == [LowAtrCall EXCEPT
                       !.positions = << Pos(1, 0, OpenTime, 200000, 10),
                                        Pos(2, 1, StartTime, 199700, 10) >>,
                       !.bid = 200000, !.ask = 200010]
CooldownCalls == {GoodCall, LowAtrCall, LowAtrSecondCall}
\* The waits of the cooldown scenario, in seconds
CooldownWaits == {5}
\* Two callers, each evaluating a symbol of its own
CapCall(t) == IF t = 1 THEN GoodCall ELSE EurCall

\* sorted(positions, key=time)[0] and [-1]; Python's sort is stable.
FirstPos(ps) ==
    LET i == CHOOSE i \in 1..Len(ps) :
                 /\ \A j \in 1..Len(ps) : ps[i].time <= ps[j].time
                 /\ \A j \in 1..(i - 1) : ps[j].time > ps[i].time
    IN ps[i]

LastPos(ps) ==
    LET i == CHOOSE i \in 1..Len(ps) :
                 /\ \A j \in 1..Len(ps) : ps[i].time >= ps[j].time
                 /\ \A j \in (i + 1)..Len(ps) : ps[j].time < ps[i].time
    IN ps[i]

\* ------------------------------------------------------------------------
\* State
\* ------------------------------------------------------------------------
VARIABLES
    now,                \* time.time()
    pc, op, arg, loc, ret,   \* per thread: position, operation, arguments, locals, result
    calls,              \* number of calls started so far
    pending,            \* RiskManager._pending_hedges (0: no entry)
    hedge_states,       \* RiskManager._hedge_states: symbol -> object id (0: no entry)
    nobjs,              \* number of HedgeState objects constructed so far
    hs,                 \* the HedgeState objects' fields
    lock,               \* HedgeState.lock of each object: 0 free, else the holder
    rm_lock,            \* RiskManager._lock
    spread_history, last_spread_update,
    time_offset, last_offset_calc,
    trades,             \* position_manager.active_learning_trades[ticket]['current_hedge_level']
    lastTicketStart,    \* per symbol: start time of the last call that obtained a ticket (0: none)
    budget,             \* number of calls the run may start
    open_total          \* the account's open positions, as broker.get_positions() lists them

rmVars == << budget, open_total, now, pc, op, arg, loc, ret, calls, pending, hedge_states, nobjs, hs, lock,
             rm_lock, spread_history, last_spread_update, time_offset, last_offset_calc,
             trades, lastTicketStart >>

\* The ledger (src/src/core/bad_bank.py)
VARIABLES
    toxic_assets,           \* BadBank.toxic_assets, in insertion order
    volume,                 \* the volume field of each position object
    tithe_balance, total_tithe_collected, total_debt_repaid,
    bpc, bloc, bret,        \* attempt_debt_reduction: position, locals, result
    breg,                   \* the arguments of the last register_toxic_asset call
    bdep,                   \* the amount and the result of the last deposit_tithe call
    deposits, passes        \* number of deposit calls and of passes so far

bankVars == << toxic_assets, volume, tithe_balance, total_tithe_collected,
               total_debt_repaid, bpc, bloc, bret, breg, bdep, deposits, passes >>

\* The microstructure analyzer (src/src/ai_core/tick_pressure.py)
VARIABLES
    ticks,                  \* TickPressureAnalyzer.ticks: (price, time), oldest first
    buy_volume_buffer,      \* volumes in halves of a unit, oldest first
    sell_volume_buffer,
    prev_mid,               \* TickPressureAnalyzer._prev_mid as bid + ask (None: not set)
    tp_call,                \* the analyzer's last call: operation, time, result
    tp_calls,               \* number of analyzer calls so far
    tp_budget               \* number of analyzer calls the run may make

tpVars == << ticks, buy_volume_buffer, sell_volume_buffer, prev_mid, tp_call, tp_calls,
             tp_budget >>

\* A function called on its own: position, arguments and result
VARIABLES fn_pc, fn_in, fn_out

fnVars == << fn_pc, fn_in, fn_out >>

auxVars == << tpVars, fnVars >>

vars == << rmVars, bankVars, auxVars >>

Objs == 1..MaxObjs
Tickets == {1, 2}

\* HedgeState() as constructed by the dataclass defaults
NewHedgeState ==
    [last_hedge_time |-> 0, active_hedges |-> 0,
     high_vol_mode |-> FALSE, volatility_scale |-> 1000]

NoArg == [symbol |-> "none"]
NoLoc == [should_hedge |-> FALSE, hedge_size |-> 0, freshness |-> FALSE, gated_at |-> 0, st |-> 0, marked |-> FALSE, start |-> 0, tick_ts |-> 0, can_hedge |-> FALSE,
          hedge_level |-> 0, zone |-> 0, action |-> "none", ticket |-> FALSE,
          ordered |-> FALSE,
          reason |-> "none", asked_positions |-> FALSE, asked_tick |-> FALSE,
          total |-> 0, server_time |-> 0, checked_at |-> 0,
          snap_hist |-> <<>>, snap_map |-> 0, snap_hs |-> <<>>, snap_trades |-> <<>>]

InitRM ==
    /\ now = StartTime
    /\ pc = [t \in Threads |-> "idle"]
    /\ op = [t \in Threads |-> "none"]
    /\ arg = [t \in Threads |-> NoArg]
    /\ loc = [t \in Threads |-> NoLoc]
    /\ ret = [t \in Threads |-> "none"]
    /\ calls = 0
    /\ pending = [s \in AllSymbols |-> 0]
    /\ hedge_states = [s \in AllSymbols |-> 0]
    /\ nobjs = 0
    /\ hs = [o \in Objs |-> NewHedgeState]
    /\ lock = [o \in Objs |-> 0]
    /\ rm_lock = 0
    /\ spread_history = <<>>
    /\ last_spread_update = 0
    /\ time_offset = None
    /\ last_offset_calc = 0
    /\ trades = [k \in Tickets |-> 0]
    /\ lastTicketStart = [s \in AllSymbols |-> 0]

\* Control helpers
Goto(t, p) == pc' = [pc EXCEPT ![t] = p]
Finish(t, r) == /\ pc' = [pc EXCEPT ![t] = "done"]
                /\ ret' = [ret EXCEPT ![t] = r]
PopPending(t) == pending' = [pending EXCEPT ![arg[t].symbol] = 0]


shared == << pending, hedge_states, nobjs, hs, lock, rm_lock, spread_history,
             last_spread_update, time_offset, last_offset_calc, trades, lastTicketStart >>

\* ------------------------------------------------------------------------
\* Pure functions of the Risk Manager
\* ------------------------------------------------------------------------

\* line 174 with >= in place of >
SpreadVeto_AtThreshold(hist, cur) ==
    cur * 10 * Len(hist) >= SumSeq(hist) * max_spread_multiplier_x10

\* is_spread_healthy: the verdict and the new history / update time.
\* current_spread > avg * 2.5 with avg = sum/len, in integers.
SpreadVeto(hist, cur) == cur * 10 * Len(hist) > SumSeq(hist) * max_spread_multiplier_x10

\* lines 169-171 with the oldest sample dropped on every append
SpreadAppend_PopAlways(hist, cur) == Tail(Append(hist, cur))

\* lines 169-171
SpreadAppend(hist, cur) ==
    LET h == Append(hist, cur)
    IN IF Len(h) > SpreadHistoryCap THEN Tail(h) ELSE h

is_spread_healthy(hist, last, cur, tnow) ==
    IF hist = <<>>
    THEN [healthy |-> TRUE, hist |-> <<cur>>, last |-> last]
    ELSE [healthy |-> ~SpreadVeto(hist, cur),
          hist |-> IF tnow - last > 1 THEN SpreadAppend(hist, cur) ELSE hist,
          last |-> IF tnow - last > 1 THEN tnow ELSE last]

\* _calculate_adaptive_factors: atr in points; vol_ratio = atr_val / 2.0 is
\* the fraction num/den below.  zone_mult is returned in thousandths.
VolNum(atr) == atr * 100
VolDen(symbol) == AtrBaseline * PointsPerUnit(symbol)

AdaptiveCooldown(symbol, atr) ==
    IF atr <= 0 THEN COOLDOWN_BASE
    ELSE IF VolNum(atr) < VOL_LOW_x100 * VolDen(symbol) THEN COOLDOWN_MIN
    ELSE IF VolNum(atr) > VOL_EXTREME_x100 * VolDen(symbol) THEN COOLDOWN_MAX
    ELSE IF VolNum(atr) > VOL_HIGH_x100 * VolDen(symbol) THEN COOLDOWN_HIGH
    ELSE COOLDOWN_BASE

AdaptiveZoneMult(symbol, atr) ==
    IF atr <= 0 THEN 1000
    ELSE IF VolNum(atr) > 100 * VolDen(symbol)
         THEN (VolNum(atr) * 10) \div VolDen(symbol)
         ELSE 1000

AtrOrZero(a) == IF IsNone(a.atr_val) THEN 0 ELSE Val(a.atr_val)

\* The checks of validate_hedge_conditions, in the order of the code.
\* Each is TRUE when the check rejects.
CapReject(a) ==
    Len(a.positions) >= (IF IsNone(a.max_hedges_override) THEN max_hedges
                         ELSE Val(a.max_hedges_override))

GlobalCapReject(total) == total >= global_position_cap

AgeReject(a, server_time) == server_time - LastPos(a.positions).time < min_age_seconds

MinFloor(symbol) == 200     \* 2.0 for metals (point 0.01), 0.0020 otherwise (point 0.00001)

DistReject(a) ==
    LET last == LastPos(a.positions)
        current_price == IF last.type = 0 THEN a.bid ELSE a.ask
        dist == Abs(current_price - last.price_open)
        atr_price == IF AtrOrZero(a) > 0 THEN AtrOrZero(a)
                     ELSE 2 * PointsPerUnit(a.symbol)
    IN \/ dist < MinFloor(a.symbol)
       \/ 4 * dist < atr_price

\* line 251-254 with the elapsed time never below the cooldown
CooldownReject_Never(a, last_hedge_time, tnow) == FALSE

CooldownReject(a, last_hedge_time, tnow) ==
    tnow - last_hedge_time < AdaptiveCooldown(a.symbol, AtrOrZero(a))

\* lines 262-268 with the width of one position for every group
BaseZonePips_Flat(n) == 20

\* calculate_zone_parameters: zone width in thousandths of a point.
BaseZonePips(n) == IF n = 2 THEN 30 ELSE IF n >= 3 THEN 50 ELSE 20

AtrPipsMilli(symbol, atr) == IF IsMetal(symbol) THEN atr * 1000 ELSE atr * 100

\* lines 262-271 without the ATR floor of lines 273-275
ZoneWidth_NoAtrFloor(a) ==
    LET base == BaseZonePips(Len(a.positions)) * 1000
        zm   == AdaptiveZoneMult(a.symbol, AtrOrZero(a))
        eff  == Min((base * zm) \div 1000, ZONE_MAX * 1000)
    IN IF zm > 1100 THEN eff ELSE base

ZoneWidth(a) ==
    LET base == BaseZonePips(Len(a.positions)) * 1000
        zm   == AdaptiveZoneMult(a.symbol, AtrOrZero(a))
        eff  == Min((base * zm) \div 1000, ZONE_MAX * 1000)
        z1   == IF zm > 1100 THEN eff ELSE base
        ap   == AtrPipsMilli(a.symbol, AtrOrZero(a))
    IN IF ap > 50000 THEN Max(z1, (ap * 8) \div 10) ELSE z1

\* lines 277-282: the take-profit width, the zone plus a tenth of the ATR
\* pips when these exceed 20
TpWidth(a) ==
    LET ap == AtrPipsMilli(a.symbol, AtrOrZero(a))
    IN ZoneWidth(a) + (IF ap > 20000 THEN ap \div 10 ELSE 0)

\* 1 + 0.5 * ln(max(ratio, 2) / 2), clamped to [1, 1.25], in thousandths,
\* for the ratios (in hundredths) that the inputs use.
VolatilityScale(ratio) ==
    IF ratio >= 330 THEN 1250
    ELSE IF ratio >= 300 THEN 1203
    ELSE IF ratio >= 250 THEN 1112
    ELSE 1000

\* Lines 399-426: the side of the trigger, or "none".
RawAction(a, zone, hedge_level) ==
    LET first == FirstPos(a.positions)
        n     == Len(a.positions)
        open  == first.price_open * 1000
        lower0 == IF first.type = 0 THEN open - zone ELSE open
        upper0 == IF first.type = 0 THEN open ELSE open + zone
        stored == a.plan_trigger * 1000
        use   == a.plan_trigger > 0
        odd   == hedge_level % 2 # 0
        lower == IF use /\ ((first.type = 0 /\ odd) \/ (first.type # 0 /\ ~odd))
                 THEN stored ELSE lower0
        upper == IF use /\ ((first.type = 0 /\ ~odd) \/ (first.type # 0 /\ odd))
                 THEN stored ELSE upper0
        epsilon == 100
    IN IF a.bid * 1000 <= lower + epsilon
       THEN (IF first.type = 0 \/ (first.type = 1 /\ n % 2 = 0)
             THEN "SELL" ELSE "none")
       ELSE IF a.ask * 1000 >= upper - epsilon
       THEN (IF first.type = 1 \/ (first.type = 0 /\ n % 2 = 0)
             THEN "BUY" ELSE "none")
       ELSE "none"

\* lines 433-436 without the test of the SELL side
ElasticWait_BuyOnly(raw, rsi) == raw = "BUY" /\ ~IsNone(rsi) /\ Val(rsi) < 30

\* lines 433-436: elastic defense
ElasticWait(raw, rsi) ==
    \/ raw = "BUY"  /\ ~IsNone(rsi) /\ Val(rsi) < 30
    \/ raw = "SELL" /\ ~IsNone(rsi) /\ Val(rsi) > 70

\* line 442 with the SELL side left out
DoublingDown_BuyOnly(raw, last_type) == raw = "BUY" /\ last_type = 0

\* line 442: the trigger has the side of the last position
DoublingDown(raw, last_type) ==
    \/ raw = "BUY"  /\ last_type = 0
    \/ raw = "SELL" /\ last_type = 1

\* Lines 399-444: the side of the hedge, or "none".
NextAction(a, zone, hedge_level) ==
    LET raw == RawAction(a, zone, hedge_level)
    IN IF \/ raw = "none"
          \/ ElasticWait(raw, a.rsi_value)
          \/ DoublingDown(raw, LastPos(a.positions).type)
       THEN "none" ELSE raw


\* ------------------------------------------------------------------------
\* The clock
\* ------------------------------------------------------------------------
Tick ==
    /\ \E d \in TickSteps :
          /\ now + d <= StartTime + MaxElapsed
          /\ now' = now + d
    /\ UNCHANGED << pc, op, arg, loc, ret, calls, shared >>
    /\ UNCHANGED << bankVars, auxVars, budget, open_total >>

\* ------------------------------------------------------------------------
\* RiskManager._get_hedge_state, called at lines 205, 346 and 495.
\* p1: the membership test (180) has found no entry; p2: the entry is read
\* back (182).  The test itself is part of the step that enters the call.
\* ------------------------------------------------------------------------
GetStateEnter(t, p1, p2) ==
    Goto(t, IF hedge_states[arg[t].symbol] = 0 THEN p1 ELSE p2)

\* line 181: self._hedge_states[symbol] = HedgeState()
GetStateCreate(t, p1, p2) ==
    /\ pc[t] = p1
    /\ nobjs < MaxObjs
    /\ nobjs' = nobjs + 1
    /\ hedge_states' = [hedge_states EXCEPT ![arg[t].symbol] = nobjs + 1]
    /\ Goto(t, p2)
    /\ UNCHANGED << now, op, arg, loc, ret, calls, pending, hs, lock, rm_lock,
                    spread_history, last_spread_update, time_offset, last_offset_calc,
                    trades, lastTicketStart >>
    /\ UNCHANGED << bankVars, auxVars, budget, open_total >>

\* line 182: return self._hedge_states[symbol]; KeyError when the entry has
\* been deleted in between.  No caller catches it.
GetStateReturn(t, p2, next) ==
    /\ pc[t] = p2
    /\ IF hedge_states[arg[t].symbol] = 0
       THEN /\ Finish(t, "raised")
            /\ UNCHANGED loc
       ELSE /\ loc' = [loc EXCEPT ![t].st = hedge_states[arg[t].symbol]]
            /\ Goto(t, next)
            /\ UNCHANGED ret
    /\ UNCHANGED << now, op, arg, calls, shared >>
    /\ UNCHANGED << bankVars, auxVars, budget, open_total >>

\* ------------------------------------------------------------------------
\* RiskManager.validate_hedge_conditions (200-256)
\* ------------------------------------------------------------------------
\* The call returns its verdict: to the caller of the operation, or to line
\* 341 of execute_zone_recovery.
ValidateReturn(t, ok, l) ==
    IF op[t] = "validate_hedge_conditions"
    THEN /\ Finish(t, IF ok THEN "True" ELSE "False")
         /\ loc' = l
    ELSE /\ loc' = [l EXCEPT ![t].can_hedge = ok]
         /\ Goto(t, "e_gate")
         /\ UNCHANGED ret

\* lines 202-205: empty list, else the membership test of _get_hedge_state
ValidateEnter(t) ==
    IF arg[t].positions = <<>>
    THEN ValidateReturn(t, FALSE, [loc EXCEPT ![t].reason = "no_positions"])
    ELSE /\ GetStateEnter(t, "v_g_create", "v_g_return")
         /\ UNCHANGED << loc, ret >>

V_Start(t, a) ==
    /\ pc[t] = "idle"
    /\ calls < budget
    /\ calls' = calls + 1
    /\ op' = [op EXCEPT ![t] = "validate_hedge_conditions"]
    /\ arg' = [arg EXCEPT ![t] = a]
    /\ loc' = [loc EXCEPT ![t] = [NoLoc EXCEPT !.start = now,
                                        !.reason = IF a.positions = <<>>
                                                   THEN "no_positions" ELSE "none",
                                        !.snap_hist = spread_history,
                                        !.snap_map = hedge_states[a.symbol],
                                        !.snap_hs = hs]]
    /\ IF a.positions = <<>>
       THEN Finish(t, "False")
       ELSE /\ Goto(t, IF hedge_states[a.symbol] = 0 THEN "v_g_create" ELSE "v_g_return")
            /\ ret' = [ret EXCEPT ![t] = "none"]
    /\ UNCHANGED << now, shared >>
    /\ UNCHANGED << bankVars, auxVars, budget, open_total >>

V_GetStateCreate(t) == GetStateCreate(t, "v_g_create", "v_g_return")
V_GetStateReturn(t) == GetStateReturn(t, "v_g_return", "v_lock")

\* line 207: with state.lock
V_Lock(t) ==
    /\ pc[t] = "v_lock"
    /\ lock[loc[t].st] = 0
    /\ lock' = [lock EXCEPT ![loc[t].st] = t]
    /\ Goto(t, "v_checks")
    /\ UNCHANGED << now, op, arg, loc, ret, calls, pending, hedge_states, nobjs, hs,
                    rm_lock, spread_history, last_spread_update, time_offset,
                    last_offset_calc, trades, lastTicketStart >>
    /\ UNCHANGED << bankVars, auxVars, budget, open_total >>

\* line 207 as an acquire whose release is skipped when the body raises
ReleaseOnException_KeepHeld(l, o) == l

\* line 207: the with statement releases the lock when its body raises
ReleaseOnException(l, o) == [l EXCEPT ![o] = 0]

\* lines 209-216 with the per-symbol cap tested before the spread verdict
GateReason_CapFirst(healthy, a) ==
    IF CapReject(a) THEN "cap" ELSE IF ~healthy THEN "spread" ELSE "ok"

\* lines 209-216: the spread verdict, then the per-symbol cap
GateReason(healthy, a) ==
    IF ~healthy THEN "spread" ELSE IF CapReject(a) THEN "cap" ELSE "ok"

\* lines 209-218: spread health, per-symbol cap, then broker.get_positions()
\* is called.
V_Checks(t) ==
    /\ pc[t] = "v_checks"
    /\ LET a == arg[t]
           r == IF a.spread > 0
                THEN is_spread_healthy(spread_history, last_spread_update, a.spread, now)
                ELSE [healthy |-> TRUE, hist |-> spread_history, last |-> last_spread_update]
           reason == GateReason(r.healthy, a)
       IN /\ spread_history' = r.hist
          /\ last_spread_update' = r.last
          /\ IF reason # "ok"
             THEN /\ lock' = [lock EXCEPT ![loc[t].st] = 0]
                  /\ ValidateReturn(t, FALSE, [loc EXCEPT ![t].reason = reason])
             ELSE /\ Goto(t, "b_get_positions")
                  /\ loc' = [loc EXCEPT ![t].asked_positions = TRUE]
                  /\ UNCHANGED << lock, ret >>
    /\ UNCHANGED << now, op, arg, calls, pending, hedge_states, nobjs, hs, rm_lock,
                    time_offset, last_offset_calc, trades, lastTicketStart >>
    /\ UNCHANGED << bankVars, auxVars, budget, open_total >>

\* What broker.get_positions() may give: None, an exception, or the list of
\* the account's open positions.
GetPositionsResults == {"None", "raise", "list"}

\* lines 218-226: get_positions returns; global cap; broker.get_tick is called.
V_GetPositions(t) ==
    /\ pc[t] = "b_get_positions"
    /\ \E r \in GetPositionsResults :
          IF r = "raise"
          THEN /\ lock' = ReleaseOnException(lock, loc[t].st)
               /\ Finish(t, "raised")
               /\ UNCHANGED loc
          ELSE IF r = "None"
          THEN /\ lock' = [lock EXCEPT ![loc[t].st] = 0]
               /\ ValidateReturn(t, FALSE, [loc EXCEPT ![t].reason = "fetch_failed"])
          ELSE IF GlobalCapReject(open_total)
          THEN /\ lock' = [lock EXCEPT ![loc[t].st] = 0]
               /\ ValidateReturn(t, FALSE, [loc EXCEPT ![t].reason = "global_cap",
                                                       ![t].total = open_total])
          ELSE /\ Goto(t, "b_get_tick")
               /\ loc' = [loc EXCEPT ![t].total = open_total, ![t].asked_tick = TRUE]
               /\ UNCHANGED << lock, ret >>
    /\ UNCHANGED << now, op, arg, calls, pending, hedge_states, nobjs, hs, rm_lock,
                    spread_history, last_spread_update, time_offset, last_offset_calc,
                    trades, lastTicketStart >>
    /\ UNCHANGED << bankVars, auxVars, budget, open_total >>

\* lines 226-256: minimum age, minimum distance, adaptive cooldown
TickChecksReason(a, server_time, last_hedge_time, tnow) ==
    IF AgeReject(a, server_time) THEN "age"
    ELSE IF DistReject(a) THEN "distance"
    ELSE IF CooldownReject(a, last_hedge_time, tnow) THEN "cooldown"
    ELSE "ok"

\* lines 226-256: get_tick returns the server time (or raises); minimum age,
\* minimum distance, cooldown; the lock is released on the way out.
V_GetTick(t) ==
    /\ pc[t] = "b_get_tick"
    /\ \/ /\ lock' = ReleaseOnException(lock, loc[t].st)
          /\ Finish(t, "raised")
          /\ UNCHANGED loc
       \/ \E server_time \in {now, LastPos(arg[t].positions).time + 1} :
             LET reason == TickChecksReason(arg[t], server_time,
                                            hs[loc[t].st].last_hedge_time, now)
             IN /\ lock' = [lock EXCEPT ![loc[t].st] = 0]
                /\ ValidateReturn(t, reason = "ok",
                                  [loc EXCEPT ![t].reason = reason,
                                              ![t].server_time = server_time,
                                              ![t].checked_at = now])
    /\ UNCHANGED << now, op, arg, calls, pending, hedge_states, nobjs, hs, rm_lock,
                    spread_history, last_spread_update, time_offset, last_offset_calc,
                    trades, lastTicketStart >>
    /\ UNCHANGED << bankVars, auxVars, budget, open_total >>


\* ------------------------------------------------------------------------
\* RiskManager.is_spread_healthy (157-177) called on its own
\* ------------------------------------------------------------------------
\* The spreads observed, in points
Spreads == {10, 25, 26, 40, 100}

H_Call(t, cur) ==
    /\ pc[t] = "idle"
    /\ calls < budget
    /\ calls' = calls + 1
    /\ LET r == is_spread_healthy(spread_history, last_spread_update, cur, now)
       IN /\ spread_history' = r.hist
          /\ last_spread_update' = r.last
          /\ Finish(t, IF r.healthy THEN "True" ELSE "False")
    /\ op' = [op EXCEPT ![t] = "is_spread_healthy"]
    /\ arg' = [arg EXCEPT ![t] = [symbol |-> "none", spread |-> cur]]
    /\ loc' = [loc EXCEPT ![t] = [NoLoc EXCEPT !.start = now,
                                               !.snap_hist = spread_history]]
    /\ UNCHANGED << now, pending, hedge_states, nobjs, hs, lock, rm_lock, time_offset,
                    last_offset_calc, trades, lastTicketStart >>
    /\ UNCHANGED << bankVars, auxVars, budget, open_total >>

\* ------------------------------------------------------------------------
\* RiskManager.execute_zone_recovery (288-492)
\* ------------------------------------------------------------------------
\* lines 294-297: the debounce test
E_Start(t, a) ==
    /\ pc[t] = "idle"
    /\ calls < budget
    /\ calls' = calls + 1
    /\ op' = [op EXCEPT ![t] = "execute_zone_recovery"]
    /\ arg' = [arg EXCEPT ![t] = a]
    /\ loc' = [loc EXCEPT ![t] =
                 [NoLoc EXCEPT !.start = now,
                               !.tick_ts = IF IsNone(a.tick_age) THEN 0
                                           ELSE now - Val(a.tick_age),
                               !.snap_hist = spread_history,
                               !.snap_hs = hs,
                               !.snap_trades = trades]]
    /\ IF now - pending[a.symbol] < PendingWindow
       THEN Finish(t, "False")
       ELSE /\ Goto(t, "e_mark")
            /\ ret' = [ret EXCEPT ![t] = "none"]
    /\ UNCHANGED << now, shared >>
    /\ UNCHANGED << bankVars, auxVars, budget, open_total >>

\* line 299: self._pending_hedges[symbol] = time.time()
E_Mark(t) ==
    /\ pc[t] = "e_mark"
    /\ pending' = [pending EXCEPT ![arg[t].symbol] = now]
    /\ loc' = [loc EXCEPT ![t].marked = TRUE]
    /\ Goto(t, "e_strict")
    /\ UNCHANGED << now, op, arg, ret, calls, hedge_states, nobjs, hs, lock, rm_lock,
                    spread_history, last_spread_update, time_offset, last_offset_calc,
                    trades, lastTicketStart >>
    /\ UNCHANGED << bankVars, auxVars, budget, open_total >>

StrictReject(a) ==
    a.strict_entry /\ (IsNone(a.rsi_value) \/ IsNone(a.atr_val) \/ Val(a.atr_val) <= 0)

\* lines 307-320: the offset after the recalculation, and the verdict on the
\* tick age; a tick without a time and without 'tick_age_s' has age inf.
ShouldRecalc(off, last_calc, tnow) == IsNone(off) \/ (tnow - last_calc) > OffsetRecalcPeriod

NewOffset(off, last_calc, tnow, tick_ts) ==
    IF ShouldRecalc(off, last_calc, tnow) /\ tick_ts > 0
    THEN Some(IF Abs(tnow - tick_ts) > OffsetThreshold THEN tnow - tick_ts ELSE 0)
    ELSE off

TickTooOld(off, tnow, tick_ts) ==
    IF tick_ts > 0
    THEN Abs(tnow - (tick_ts + (IF IsNone(off) THEN 0 ELSE Val(off)))) > FreshTickMaxAge
    ELSE TRUE

\* lines 301-325: strict-entry inputs, freshness gate, then
\* broker.is_trade_allowed() is called.
E_Strict(t) ==
    /\ pc[t] = "e_strict"
    /\ \E enable_freshness \in BOOLEAN :
         LET a == arg[t]
             off == NewOffset(time_offset, last_offset_calc, now, loc[t].tick_ts)
             recalc == ShouldRecalc(time_offset, last_offset_calc, now) /\ loc[t].tick_ts > 0
         IN IF StrictReject(a)
            THEN /\ PopPending(t)
                 /\ Finish(t, "False")
                 /\ UNCHANGED << loc, time_offset, last_offset_calc >>
            ELSE IF ~enable_freshness
            THEN /\ Goto(t, "b_is_trade_allowed")
                 /\ UNCHANGED << loc, pending, ret, time_offset, last_offset_calc >>
            ELSE /\ time_offset' = off
                 /\ last_offset_calc' = IF recalc THEN now ELSE last_offset_calc
                 /\ loc' = [loc EXCEPT ![t].freshness = TRUE, ![t].gated_at = now]
                 /\ IF TickTooOld(off, now, loc[t].tick_ts)
                    THEN /\ PopPending(t)
                         /\ Finish(t, "False")
                    ELSE /\ Goto(t, "b_is_trade_allowed")
                         /\ UNCHANGED << pending, ret >>
    /\ UNCHANGED << now, op, arg, calls, hedge_states, nobjs, hs, lock, rm_lock,
                    spread_history, last_spread_update, trades, lastTicketStart >>
    /\ UNCHANGED << bankVars, auxVars, budget, open_total >>

\* lines 325-330: is_trade_allowed returns True, returns False or raises
E_TradeAllowed(t) ==
    /\ pc[t] = "b_is_trade_allowed"
    /\ \E r \in {"True", "False", "raise"} :
          IF r = "True"
          THEN /\ Goto(t, "e_coord")
               /\ UNCHANGED << pending, ret >>
          ELSE /\ PopPending(t)
               /\ Finish(t, "False")
    /\ UNCHANGED << now, op, arg, loc, calls, hedge_states, nobjs, hs, lock, rm_lock,
                    spread_history, last_spread_update, time_offset, last_offset_calc,
                    trades, lastTicketStart >>
    /\ UNCHANGED << bankVars, auxVars, budget, open_total >>

\* lines 332-341: first position (IndexError on an empty list), the
\* coordinator's verdict, then validate_hedge_conditions is entered.  None of
\* this is inside a try block.
E_Coord(t) ==
    /\ pc[t] = "e_coord"
    /\ \E r \in {"allow", "deny", "raise"} :
          IF arg[t].positions = <<>> \/ r = "raise"
          THEN /\ Finish(t, "raised")
               /\ UNCHANGED << pending, loc >>
          ELSE IF r = "deny"
          THEN /\ PopPending(t)
               /\ Finish(t, "False")
               /\ UNCHANGED loc
          ELSE /\ ValidateEnter(t)
               /\ UNCHANGED pending
    /\ UNCHANGED << now, op, arg, calls, hedge_states, nobjs, hs, lock, rm_lock,
                    spread_history, last_spread_update, time_offset, last_offset_calc,
                    trades, lastTicketStart >>
    /\ UNCHANGED << bankVars, auxVars, budget, open_total >>

\* lines 342-346: the gate's verdict, then _get_hedge_state is entered
E_Gate(t) ==
    /\ pc[t] = "e_gate"
    /\ IF ~loc[t].can_hedge
       THEN /\ PopPending(t)
            /\ Finish(t, "False")
       ELSE /\ GetStateEnter(t, "e_g_create", "e_g_return")
            /\ UNCHANGED << pending, ret >>
    /\ UNCHANGED << now, op, arg, loc, calls, hedge_states, nobjs, hs, lock, rm_lock,
                    spread_history, last_spread_update, time_offset, last_offset_calc,
                    trades, lastTicketStart >>
    /\ UNCHANGED << bankVars, auxVars, budget, open_total >>

E_GetStateCreate(t) == GetStateCreate(t, "e_g_create", "e_g_return")
E_GetStateReturn(t) == GetStateReturn(t, "e_g_return", "e_plan")


\* lines 363-364: the hedge level the call works with
EffectiveHedgeLevel(saved, n) == IF saved # 0 THEN saved ELSE Max(0, n - 1)

\* lines 347-386: bucket metadata, ATR, hedge level, zone width, VPIN veto
\* and Reynolds widening.  An exception of the position manager is caught at
\* line 489.  Without a positive atr_val the call ends at line 361, or, with
\* an entry_atr in the metadata, at line 275 with a TypeError caught at line
\* 489: both clear the marker and return False.
E_Plan(t) ==
    /\ pc[t] = "e_plan"
    /\ \E r \in {"ok", "raise"} :
         LET a == arg[t]
             first == FirstPos(a.positions)
             level == EffectiveHedgeLevel(trades[first.ticket], Len(a.positions))
             zone0 == ZoneWidth(a)
             zone  == IF a.reynolds > 2000 THEN (zone0 * 125) \div 100 ELSE zone0
         IN IF r = "raise" \/ AtrOrZero(a) <= 0 \/ a.vpin > 60
            THEN /\ PopPending(t)
                 /\ Finish(t, "False")
                 /\ UNCHANGED loc
            ELSE /\ loc' = [loc EXCEPT ![t].hedge_level = level, ![t].zone = zone]
                 /\ Goto(t, "e_vol_lock")
                 /\ UNCHANGED << pending, ret >>
    /\ UNCHANGED << now, op, arg, calls, hedge_states, nobjs, hs, lock, rm_lock,
                    spread_history, last_spread_update, time_offset, last_offset_calc,
                    trades, lastTicketStart >>
    /\ UNCHANGED << bankVars, auxVars, budget, open_total >>

\* line 386: with state.lock
E_VolLock(t) ==
    /\ pc[t] = "e_vol_lock"
    /\ lock[loc[t].st] = 0
    /\ lock' = [lock EXCEPT ![loc[t].st] = t]
    /\ Goto(t, "e_vol")
    /\ UNCHANGED << now, op, arg, loc, ret, calls, pending, hedge_states, nobjs, hs,
                    rm_lock, spread_history, last_spread_update, time_offset,
                    last_offset_calc, trades, lastTicketStart >>
    /\ UNCHANGED << bankVars, auxVars, budget, open_total >>

\* lines 387-393: the volatility regime of the state after the update
\* lines 387-393 without the band: every ratio below 2.5 resets the mode
VolUpdate_NoBand(h, ratio) ==
    IF ratio >= 250
    THEN [h EXCEPT !.high_vol_mode = TRUE,
                   !.volatility_scale = Max(1000, Min(VolatilityScale(ratio), 1250))]
    ELSE [h EXCEPT !.high_vol_mode = FALSE, !.volatility_scale = 1000]

VolUpdate(h, ratio) ==
    IF ratio >= 250
    THEN [h EXCEPT !.high_vol_mode = TRUE,
                   !.volatility_scale = Max(1000, Min(VolatilityScale(ratio), 1250))]
    ELSE IF ratio <= 200
    THEN [h EXCEPT !.high_vol_mode = FALSE, !.volatility_scale = 1000]
    ELSE h

\* lines 387-397: the update under the lock, the lock released, the zone scaled
E_Vol(t) ==
    /\ pc[t] = "e_vol"
    /\ LET o == loc[t].st
           h == VolUpdate(hs[o], arg[t].volatility_ratio)
           scale_factor == h.volatility_scale
       IN /\ hs' = [hs EXCEPT ![o] = h]
          /\ loc' = [loc EXCEPT ![t].zone =
                        IF scale_factor > 1000 THEN (@ * scale_factor) \div 1000 ELSE @]
    /\ lock' = [lock EXCEPT ![loc[t].st] = 0]
    /\ Goto(t, "e_trigger")
    /\ UNCHANGED << now, op, arg, ret, calls, pending, hedge_states, nobjs, rm_lock,
                    spread_history, last_spread_update, time_offset, last_offset_calc,
                    trades, lastTicketStart >>
    /\ UNCHANGED << bankVars, auxVars, budget, open_total >>

\* lines 399-452: boundaries, trigger, elastic defense, no doubling down;
\* then broker.get_account_info() is called.
E_Trigger(t) ==
    /\ pc[t] = "e_trigger"
    /\ LET act == NextAction(arg[t], loc[t].zone, loc[t].hedge_level)
       IN IF act = "none"
          THEN /\ PopPending(t)
               /\ Finish(t, "False")
               /\ UNCHANGED loc
          ELSE /\ loc' = [loc EXCEPT ![t].action = act]
               /\ Goto(t, "b_get_account_info")
               /\ UNCHANGED << pending, ret >>
    /\ UNCHANGED << now, op, arg, calls, hedge_states, nobjs, hs, lock, rm_lock,
                    spread_history, last_spread_update, time_offset, last_offset_calc,
                    trades, lastTicketStart >>
    /\ UNCHANGED << bankVars, auxVars, budget, open_total >>

\* What analyze_hedge_decision may give: an exception, or a decision with a
\* target size in thousandths of a lot.
HedgeDecisions ==
    { [kind |-> "raise", should_hedge |-> FALSE, hedge_size |-> 0] } \cup
    { [kind |-> "decision", should_hedge |-> b, hedge_size |-> sz] :
          b \in BOOLEAN, sz \in {0, 5, 20} }

FriendlyVolume(a, act) ==
    LET side == IF act = "BUY" THEN 0 ELSE 1
        vols == [i \in 1..Len(a.positions) |->
                    IF a.positions[i].type = side THEN a.positions[i].volume ELSE 0]
    IN SumSeq(vols)

\* line 465 with only a lot of zero or less taken as satisfied
ZoneSatisfied_NonPositive(hedge_lot) == hedge_lot <= 0

\* line 465: hedge_lot < 0.01
ZoneSatisfied(hedge_lot) == hedge_lot < 10

\* lines 452-470: get_account_info returns or raises (swallowed at 454), the
\* sizing decision, the incremental lot; then broker.execute_order is called.
E_Size(t) ==
    /\ pc[t] = "b_get_account_info"
    /\ \E d \in HedgeDecisions :
         LET hedge_lot == d.hedge_size - FriendlyVolume(arg[t], loc[t].action)
         IN /\ loc' = [loc EXCEPT ![t].should_hedge = d.should_hedge,
                                  ![t].hedge_size = d.hedge_size]
            /\ IF d.kind = "raise" \/ ~d.should_hedge
               THEN /\ PopPending(t)
                    /\ Finish(t, "False")
               ELSE IF ZoneSatisfied(hedge_lot)
               THEN /\ PopPending(t)
                    /\ Finish(t, "True")
               ELSE /\ Goto(t, "b_execute_order")
                    /\ UNCHANGED << pending, ret >>
    /\ UNCHANGED << now, op, arg, calls, hedge_states, nobjs, hs, lock, rm_lock,
                    spread_history, last_spread_update, time_offset, last_offset_calc,
                    trades, lastTicketStart >>
    /\ UNCHANGED << bankVars, auxVars, budget, open_total >>

\* line 476 with a check of the result alone
OrderConfirmed_AnyResult(r) == r # "raise"

\* line 476: result and result.get('ticket')
OrderConfirmed(r) == r = "ticket"

\* lines 470-476 and 486-492: execute_order returns a result with a ticket,
\* returns none or a result without a ticket, or raises
E_Order(t) ==
    /\ pc[t] = "b_execute_order"
    /\ \E r \in {"ticket", "none", "raise"} :
          /\ loc' = [loc EXCEPT ![t].ticket = (r = "ticket"), ![t].ordered = TRUE]
          /\ open_total' = IF r = "ticket" THEN open_total + 1 ELSE open_total
          /\ lastTicketStart' = IF r = "ticket"
                                THEN [lastTicketStart EXCEPT ![arg[t].symbol] = loc[t].start]
                                ELSE lastTicketStart
          /\ IF r # "raise" /\ OrderConfirmed(r)
             THEN /\ Goto(t, "e_record")
                  /\ UNCHANGED << pending, ret >>
             ELSE /\ PopPending(t)
                  /\ Finish(t, "False")
    /\ UNCHANGED << now, op, arg, calls, hedge_states, nobjs, hs, lock, rm_lock,
                    spread_history, last_spread_update, time_offset, last_offset_calc,
                    trades >>
    /\ UNCHANGED << bankVars, auxVars, budget >>

\* line 477: coordinator.record_hedge, which may raise (caught at 489)
E_Record(t) ==
    /\ pc[t] = "e_record"
    /\ \E r \in {"ok", "raise"} :
          IF r = "ok"
          THEN /\ Goto(t, "e_meta")
               /\ UNCHANGED << pending, ret >>
          ELSE /\ PopPending(t)
               /\ Finish(t, "False")
    /\ UNCHANGED << now, op, arg, loc, calls, hedge_states, nobjs, hs, lock, rm_lock,
                    spread_history, last_spread_update, time_offset, last_offset_calc,
                    trades, lastTicketStart >>
    /\ UNCHANGED << bankVars, auxVars, budget, open_total >>

\* lines 478-480: the bucket's hedge level is advanced
E_Meta(t) ==
    /\ pc[t] = "e_meta"
    /\ trades' = [trades EXCEPT ![FirstPos(arg[t].positions).ticket] = loc[t].hedge_level + 1]
    /\ Goto(t, "e_last_hedge_time")
    /\ UNCHANGED << now, op, arg, loc, ret, calls, pending, hedge_states, nobjs, hs, lock,
                    rm_lock, spread_history, last_spread_update, time_offset,
                    last_offset_calc, lastTicketStart >>
    /\ UNCHANGED << bankVars, auxVars, budget, open_total >>

\* line 481: state.last_hedge_time = time.time()
E_LastHedgeTime(t) ==
    /\ pc[t] = "e_last_hedge_time"
    /\ hs' = [hs EXCEPT ![loc[t].st].last_hedge_time = now]
    /\ Goto(t, "e_active_hedges")
    /\ UNCHANGED << now, op, arg, loc, ret, calls, pending, hedge_states, nobjs, lock,
                    rm_lock, spread_history, last_spread_update, time_offset,
                    last_offset_calc, trades, lastTicketStart >>
    /\ UNCHANGED << bankVars, auxVars, budget, open_total >>

\* line 482: state.active_hedges += 1
E_ActiveHedges(t) ==
    /\ pc[t] = "e_active_hedges"
    /\ hs' = [hs EXCEPT ![loc[t].st].active_hedges = @ + 1]
    /\ Goto(t, "e_add_position")
    /\ UNCHANGED << now, op, arg, loc, ret, calls, pending, hedge_states, nobjs, lock,
                    rm_lock, spread_history, last_spread_update, time_offset,
                    last_offset_calc, trades, lastTicketStart >>
    /\ UNCHANGED << bankVars, auxVars, budget, open_total >>

\* lines 483-484 and 489-492: add_position_to_bucket, then return True; an
\* exception is caught at 489
E_AddPosition(t) ==
    /\ pc[t] = "e_add_position"
    /\ \E r \in {"ok", "raise"} :
          IF r = "ok"
          THEN /\ Finish(t, "True")
               /\ UNCHANGED pending
          ELSE /\ PopPending(t)
               /\ Finish(t, "False")
    /\ UNCHANGED << now, op, arg, loc, calls, hedge_states, nobjs, hs, lock, rm_lock,
                    spread_history, last_spread_update, time_offset, last_offset_calc,
                    trades, lastTicketStart >>
    /\ UNCHANGED << bankVars, auxVars, budget, open_total >>


\* ------------------------------------------------------------------------
\* RiskManager.reset_symbol_state (506-510)
\* ------------------------------------------------------------------------
\* line 507: with self._lock
R_Start(t, symbol) ==
    /\ pc[t] = "idle"
    /\ calls < budget
    /\ rm_lock = 0
    /\ calls' = calls + 1
    /\ rm_lock' = t
    /\ op' = [op EXCEPT ![t] = "reset_symbol_state"]
    /\ arg' = [arg EXCEPT ![t] = [symbol |-> symbol]]
    /\ loc' = [loc EXCEPT ![t] = [NoLoc EXCEPT !.start = now]]
    /\ ret' = [ret EXCEPT ![t] = "none"]
    /\ Goto(t, "r_delete")
    /\ UNCHANGED << now, pending, hedge_states, nobjs, hs, lock, spread_history,
                    last_spread_update, time_offset, last_offset_calc, trades,
                    lastTicketStart >>
    /\ UNCHANGED << bankVars, auxVars, budget, open_total >>

\* lines 508-510: the entry is deleted, the lock released
R_Delete(t) ==
    /\ pc[t] = "r_delete"
    /\ hedge_states' = [hedge_states EXCEPT ![arg[t].symbol] = 0]
    /\ rm_lock' = 0
    /\ Finish(t, "None")
    /\ UNCHANGED << now, op, arg, loc, calls, pending, nobjs, hs, lock, spread_history,
                    last_spread_update, time_offset, last_offset_calc, trades,
                    lastTicketStart >>
    /\ UNCHANGED << bankVars, auxVars, budget, open_total >>

\* ------------------------------------------------------------------------
\* RiskManager.get_risk_status (494-504)
\* ------------------------------------------------------------------------
S_Start(t, symbol) ==
    /\ pc[t] = "idle"
    /\ calls < budget
    /\ calls' = calls + 1
    /\ op' = [op EXCEPT ![t] = "get_risk_status"]
    /\ arg' = [arg EXCEPT ![t] = [symbol |-> symbol]]
    /\ loc' = [loc EXCEPT ![t] = [NoLoc EXCEPT !.start = now]]
    /\ ret' = [ret EXCEPT ![t] = "none"]
    /\ Goto(t, IF hedge_states[symbol] = 0 THEN "s_g_create" ELSE "s_g_return")
    /\ UNCHANGED << now, shared >>
    /\ UNCHANGED << bankVars, auxVars, budget, open_total >>

S_GetStateCreate(t) == GetStateCreate(t, "s_g_create", "s_g_return")
S_GetStateReturn(t) == GetStateReturn(t, "s_g_return", "s_lock")

\* line 496: with state.lock
S_Lock(t) ==
    /\ pc[t] = "s_lock"
    /\ lock[loc[t].st] = 0
    /\ lock' = [lock EXCEPT ![loc[t].st] = t]
    /\ Goto(t, "s_read")
    /\ UNCHANGED << now, op, arg, loc, ret, calls, pending, hedge_states, nobjs, hs,
                    rm_lock, spread_history, last_spread_update, time_offset,
                    last_offset_calc, trades, lastTicketStart >>
    /\ UNCHANGED << bankVars, auxVars, budget, open_total >>

\* lines 497-504: the fields are read, the lock released
S_Read(t) ==
    /\ pc[t] = "s_read"
    /\ lock' = [lock EXCEPT ![loc[t].st] = 0]
    /\ Finish(t, "status")
    /\ UNCHANGED << now, op, arg, loc, calls, pending, hedge_states, nobjs, hs,
                    rm_lock, spread_history, last_spread_update, time_offset,
                    last_offset_calc, trades, lastTicketStart >>
    /\ UNCHANGED << bankVars, auxVars, budget, open_total >>

\* The caller takes the result; the thread is free for its next call.
Return(t) ==
    /\ pc[t] = "done"
    /\ pc' = [pc EXCEPT ![t] = "idle"]
    /\ op' = [op EXCEPT ![t] = "none"]
    /\ arg' = [arg EXCEPT ![t] = NoArg]
    /\ loc' = [loc EXCEPT ![t] = NoLoc]
    /\ ret' = [ret EXCEPT ![t] = "none"]
    /\ UNCHANGED << now, calls, shared >>
    /\ UNCHANGED << bankVars, auxVars, budget, open_total >>


\* ------------------------------------------------------------------------
\* The Bad Bank (src/src/core/bad_bank.py)
\* ------------------------------------------------------------------------
\* The position objects handed to the ledger.  Their volume is mutable.
BankPosIds == {1, 2, 3}

BankPos(p) ==
    IF p = 1 THEN [ticket |-> 11, symbol |-> "XAUUSD", type |-> 0, price_open |-> 200000]
    ELSE IF p = 2 THEN [ticket |-> 12, symbol |-> "EURUSD", type |-> 1, price_open |-> 110000]
    ELSE [ticket |-> 13, symbol |-> "XAUUSD", type |-> 0, price_open |-> 200000]

InitialVolume == [p \in BankPosIds |-> IF p = 1 THEN 20 ELSE IF p = 2 THEN 10 ELSE 5]

\* The registrations the callers make
Registrations ==
    { [bucket_id |-> "B1", positions |-> << 1 >>],
      [bucket_id |-> "B1", positions |-> << 3, 1 >>],
      [bucket_id |-> "B2", positions |-> << 2 >>],
      [bucket_id |-> "B2", positions |-> << >>] }

\* The amounts deposited, in cents
DepositAmounts == {0 - 100, 0, 300, 500}

\* What broker.get_last_tick may give: None, or bid and ask as offsets from
\* the position's open price
LastTicks ==
    { [none |-> TRUE, bid |-> 0, ask |-> 0] } \cup
    { [none |-> FALSE, bid |-> d, ask |-> d + 10] : d \in {0 - 500, 0 - 300, 100} }

NIBBLE_SIZE == 10

NoDeposit == [amount |-> 0, returned |-> 0]

NoReg == [bucket_id |-> "none", positions |-> <<>>]

NoBLoc == [requests |-> <<>>, start_volume |-> [p \in BankPosIds |-> 0],
           quotes |-> <<>>, items |-> <<>>, idx |-> 0, loser |-> 0, estimated |-> 0, required |-> 0,
           action_taken |-> FALSE]

InitBank ==
    /\ toxic_assets = <<>>
    /\ volume = InitialVolume
    /\ tithe_balance = 0
    /\ total_tithe_collected = 0
    /\ total_debt_repaid = 0
    /\ bpc = "idle"
    /\ bloc = NoBLoc
    /\ bret = "none"
    /\ breg = NoReg
    /\ bdep = NoDeposit
    /\ deposits = 0
    /\ passes = 0

IsRegistered(b) == \E i \in 1..Len(toxic_assets) : toxic_assets[i].bucket_id = b

AssetIndex(b) == CHOOSE i \in 1..Len(toxic_assets) : toxic_assets[i].bucket_id = b

RECURSIVE SumVolume(_, _)
SumVolume(ps, vol) == IF ps = <<>> THEN 0 ELSE vol[Head(ps)] + SumVolume(Tail(ps), vol)

RemoveAt(sq, i) == [j \in 1..(Len(sq) - 1) |-> IF j < i THEN sq[j] ELSE sq[j + 1]]

\* The coroutine is suspended only in its await (line 147); the synchronous
\* methods run between its steps there or when no pass is running.
BankQuiescent == bpc \in {"idle", "closing", "done"}

\* lines 27-40 without the early return: a known bucket's record is replaced
RegisteredAssets_Overwrite(assets, r, vol, tnow) ==
    LET rec == [bucket_id |-> r.bucket_id, positions |-> r.positions, frozen_time |-> tnow,
                initial_volume |-> SumVolume(r.positions, vol), status |-> "FROZEN"]
    IN IF \E i \in 1..Len(assets) : assets[i].bucket_id = r.bucket_id
       THEN [i \in 1..Len(assets) |->
                IF assets[i].bucket_id = r.bucket_id THEN rec ELSE assets[i]]
       ELSE Append(assets, rec)

\* lines 27-40: a known bucket id is left as it is, a new one gets its record
RegisteredAssets(assets, r, vol, tnow) ==
    IF \E i \in 1..Len(assets) : assets[i].bucket_id = r.bucket_id
    THEN assets
    ELSE Append(assets,
           [bucket_id |-> r.bucket_id, positions |-> r.positions, frozen_time |-> tnow,
            initial_volume |-> SumVolume(r.positions, vol), status |-> "FROZEN"])

\* register_toxic_asset (23-43)
register_toxic_asset(r) ==
    /\ BankQuiescent
    /\ breg' = r
    /\ toxic_assets' = RegisteredAssets(toxic_assets, r, volume, now)
    /\ UNCHANGED << volume, tithe_balance, total_tithe_collected, total_debt_repaid,
                    bpc, bloc, bret, bdep, deposits, passes >>
    /\ UNCHANGED << rmVars, auxVars >>

\* line 50 with the sign test left out
DepositAccepted_Any(amount) == amount

\* lines 50-62: the amount accepted, 0 for a non-positive amount
DepositAccepted(amount) == IF amount <= 0 THEN 0 ELSE amount

\* deposit_tithe (45-62)
deposit_tithe(amount) ==
    /\ BankQuiescent
    /\ deposits < MaxDeposits
    /\ deposits' = deposits + 1
    /\ bdep' = [amount |-> amount, returned |-> DepositAccepted(amount)]
    /\ tithe_balance' = tithe_balance + DepositAccepted(amount)
    /\ total_tithe_collected' = total_tithe_collected + DepositAccepted(amount)
    /\ UNCHANGED << toxic_assets, volume, total_debt_repaid, bpc, bloc, bret, breg,
                    passes >>
    /\ UNCHANGED << rmVars, auxVars >>

\* attempt_debt_reduction (74-174)
\* lines 85-91: nothing to do, or the items are listed
B_Begin ==
    /\ bpc = "idle"
    /\ IF toxic_assets = <<>>
       THEN /\ bpc' = "done"
            /\ bret' = "False"
            /\ bloc' = NoBLoc
       ELSE /\ bpc' = "scan"
            /\ bret' = "none"
            /\ bloc' = [NoBLoc EXCEPT
                          !.items = [i \in 1..Len(toxic_assets) |-> toxic_assets[i].bucket_id],
                          !.idx = 1,
                          !.start_volume = volume]
    /\ UNCHANGED << toxic_assets, volume, tithe_balance, total_tithe_collected,
                    total_debt_repaid, breg, bdep, deposits >>
    /\ UNCHANGED << rmVars, auxVars >>

\* a pass of the bounded number of passes
B_Start ==
    /\ passes < MaxPasses
    /\ passes' = passes + 1
    /\ B_Begin

\* lines 100-107: the first position with volume >= 0.01, or 0
Loser(ps, vol) ==
    IF \E i \in 1..Len(ps) : vol[ps[i]] >= NIBBLE_SIZE
    THEN ps[CHOOSE i \in 1..Len(ps) :
               /\ vol[ps[i]] >= NIBBLE_SIZE
               /\ \A j \in 1..(i - 1) : vol[ps[j]] < NIBBLE_SIZE]
    ELSE 0

\* lines 127-140: the tithe required to close 0.01 lot of position p at the
\* tick, in cents.  diff * 0.01 * contract_size dollars is diff points' worth
\* of cents for both contract sizes (point 0.01 with 100, 0.00001 with 100000).
EstimatedLoss(p, tick) ==
    IF BankPos(p).type = 0 THEN tick.bid ELSE 0 - tick.ask

\* lines 135-140 without the profitable branch
RequiredTithe_Magnitude(p, tick) == Abs(EstimatedLoss(p, tick))

RequiredTithe(p, tick) ==
    IF EstimatedLoss(p, tick) >= 0 THEN 0 ELSE Abs(EstimatedLoss(p, tick))

\* line 143 with a test of the balance alone
Affordable_PositiveBalance(balance, required) == balance > 0

\* line 143 with the comparison turned round
Affordable_Reversed(balance, required) == balance <= required

\* line 143
Affordable(balance, required) == balance >= required

\* line 174 and the loop's continue: the next bucket, or the end of the pass,
\* with the locals l
B_ContinueFrom(l) ==
    IF l.idx >= Len(l.items)
    THEN /\ bpc' = "done"
         /\ bret' = IF l.action_taken THEN "True" ELSE "False"
         /\ bloc' = l
    ELSE /\ bpc' = "scan"
         /\ bloc' = [l EXCEPT !.idx = @ + 1]
         /\ UNCHANGED bret

B_Continue == B_ContinueFrom(bloc)

\* line 147 asking for the whole position
CloseVolume_WholePosition(v) == v

\* line 147: volume=NIBBLE_SIZE, whatever the position holds
CloseVolume(v) == NIBBLE_SIZE

\* lines 91-147: one bucket is examined up to the call of close_position;
\* requests lists the close_position calls of the pass, start_volume the
\* volumes when the pass began, quotes lists the required_tithe computed for
\* each bucket that had a candidate position and a tick, estimated is the
\* last estimated_loss.
B_ScanWith(quotes) ==
    /\ bpc = "scan"
    /\ \E tick \in quotes :
         LET b == bloc.items[bloc.idx]
             ps == toxic_assets[AssetIndex(b)].positions
             loser == Loser(ps, volume)
             quoted == [bloc EXCEPT !.loser = loser,
                                    !.estimated = EstimatedLoss(loser, tick),
                                    !.required = RequiredTithe(loser, tick),
                                    !.quotes = Append(@, RequiredTithe(loser, tick))]
         IN IF ps = <<>> \/ loser = 0 \/ tick.none
            THEN B_Continue
            ELSE IF ~Affordable(tithe_balance, quoted.required)
            THEN B_ContinueFrom(quoted)
            ELSE /\ bpc' = "closing"
                 /\ bloc' = [quoted EXCEPT
                               !.requests = Append(@, [position |-> loser,
                                                       volume |-> CloseVolume(volume[loser])])]
                 /\ UNCHANGED bret
    /\ UNCHANGED << toxic_assets, volume, tithe_balance, total_tithe_collected,
                    total_debt_repaid, breg, bdep, deposits, passes >>
    /\ UNCHANGED << rmVars, auxVars >>

B_Scan == B_ScanWith(LastTicks)

\* line 155 with the tracked volume left as it was
RoundedVolume_Kept(v) == v

\* round(v - 0.01, 2) in thousandths of a lot
RoundedVolume(v) == ((v - NIBBLE_SIZE + 5) \div 10) * 10

\* line 152 left out: the repayment is never counted
RepaidAfterClose_Uncounted(repaid, required, res) == repaid

\* line 152: the lifetime counter after close_position has returned res
RepaidAfterClose(repaid, required, res) == IF res THEN repaid + required ELSE repaid

\* line 151 moved before the test of res
BalanceAfterClose_DeductFirst(balance, required, res) == balance - required

\* lines 149-151: the pool after close_position has returned res
BalanceAfterClose(balance, required, res) == IF res THEN balance - required ELSE balance

\* lines 147-169: close_position returns
B_CloseWith(results) ==
    /\ bpc = "closing"
    /\ \E res \in results :
         /\ tithe_balance' = BalanceAfterClose(tithe_balance, bloc.required, res)
         /\ total_debt_repaid' = RepaidAfterClose(total_debt_repaid, bloc.required, res)
         /\ IF res
            THEN LET b == bloc.items[bloc.idx]
                     i == AssetIndex(b)
                     p == bloc.loser
                     v == RoundedVolume(volume[p])
                     ps == toxic_assets[i].positions
                     k == CHOOSE k \in 1..Len(ps) : ps[k] = p
                     ps2 == IF v < NIBBLE_SIZE THEN RemoveAt(ps, k) ELSE ps
                 IN /\ volume' = [volume EXCEPT ![p] = v]
                    /\ toxic_assets' = IF ps2 = <<>>
                                       THEN RemoveAt(toxic_assets, i)
                                       ELSE [toxic_assets EXCEPT ![i].positions = ps2]
                    /\ bpc' = "done"
                    /\ bret' = "True"
                    /\ bloc' = [bloc EXCEPT !.action_taken = TRUE]
            ELSE /\ B_Continue
                 /\ UNCHANGED << toxic_assets, volume >>
    /\ UNCHANGED << total_tithe_collected, breg, bdep, deposits, passes >>
    /\ UNCHANGED << rmVars, auxVars >>

B_Close == B_CloseWith(BOOLEAN)

\* The caller takes the result of the pass
B_Return ==
    /\ bpc = "done"
    /\ bpc' = "idle"
    /\ bloc' = NoBLoc
    /\ bret' = "none"
    /\ UNCHANGED << toxic_assets, volume, tithe_balance, total_tithe_collected,
                    total_debt_repaid, breg, bdep, deposits, passes >>
    /\ UNCHANGED << rmVars, auxVars >>

\* ------------------------------------------------------------------------
\* TickPressureAnalyzer (src/src/ai_core/tick_pressure.py)
\* Prices in points, times in seconds, volumes in halves of a unit.
\* ------------------------------------------------------------------------
NoTpCall == [op |-> "none", at |-> 0, result |-> "none", num |-> 0, den |-> 1]

InitTP ==
    /\ ticks = <<>>
    /\ buy_volume_buffer = <<>>
    /\ sell_volume_buffer = <<>>
    /\ prev_mid = None
    /\ tp_call = NoTpCall
    /\ tp_calls = 0
    /\ tp_budget = 0

NoIn == [none |-> TRUE]
NoOut == [none |-> TRUE]

InitFn ==
    /\ fn_pc = "idle"
    /\ fn_in = NoIn
    /\ fn_out = NoOut

InitAux == InitTP /\ InitFn

\* The waits between two calls of the analyzer, in seconds
WaitSteps == {1, 3}

\* time.time() moves on between two calls
Advance(d) ==
    /\ now + d <= StartTime + MaxElapsed
    /\ now' = now + d
    /\ UNCHANGED << pc, op, arg, loc, ret, calls, shared, budget, open_total >>
    /\ UNCHANGED << bankVars, auxVars >>

\* The ticks handed to add_tick: None, or a dict with its bid
AddTickInputs ==
    { [none |-> TRUE, bid |-> 0] } \cup
    { [none |-> FALSE, bid |-> b] : b \in {0, 200000, 200040} }

RECURSIVE Cleanup(_, _)
\* lines 65-67: samples older than the window leave at the front
Cleanup(tk, current_time) ==
    IF tk # <<>> /\ current_time - Head(tk).time > window_seconds
    THEN Cleanup(Tail(tk), current_time)
    ELSE tk

\* lines 58-60: a tick with a positive bid is appended and the window cleaned
TicksAfterAdd(tk, tick, current_time) ==
    IF tick.none \/ tick.bid <= 0
    THEN tk
    ELSE Cleanup(Append(tk, [price |-> tick.bid, time |-> current_time]), current_time)

\* add_tick (45-63)
add_tick(tick) ==
    /\ tp_calls < tp_budget
    /\ tp_calls' = tp_calls + 1
    /\ ticks' = TicksAfterAdd(ticks, tick, now)
    /\ tp_call' = [NoTpCall EXCEPT !.op = "add_tick", !.at = now]
    /\ UNCHANGED << buy_volume_buffer, sell_volume_buffer, prev_mid >>
    /\ UNCHANGED << rmVars, bankVars, fnVars, tp_budget >>

\* lines 74-127: the 'state' of the metrics; velocity is n * k / d ticks per
\* second, with k / d = 1000 for a duration of 0 (duration = 0.001).
PressureState(tk) ==
    IF Len(tk) < 5 THEN "INSUFFICIENT_DATA"
    ELSE LET n == Len(tk)
             delta == tk[n].price - tk[1].price
             duration == tk[n].time - tk[1].time
             k == IF duration <= 0 THEN 1000 ELSE 1
             d == IF duration <= 0 THEN 1 ELSE duration
         IN IF delta * n * k > 50 * d THEN "INSTITUTIONAL_BUY"
            ELSE IF delta * n * k > 15 * d THEN "STRONG_BUY"
            ELSE IF delta * n * k < (0 - 50) * d THEN "INSTITUTIONAL_SELL"
            ELSE IF delta * n * k < (0 - 15) * d THEN "STRONG_SELL"
            ELSE IF n * k > 10 * d /\ Abs(delta) < 2 THEN "ABSORPTION_FIGHT"
            ELSE IF n * k < d THEN "LOW_LIQUIDITY"
            ELSE "NEUTRAL"

\* lines 74-92: 'velocity' as the fraction num / den of ticks per second
Velocity(tk) ==
    IF Len(tk) < 5 THEN [num |-> 0, den |-> 1]
    ELSE LET duration == tk[Len(tk)].time - tk[1].time
         IN IF duration <= 0 THEN [num |-> Len(tk) * 1000, den |-> 1]
            ELSE [num |-> Len(tk), den |-> duration]

\* get_pressure_metrics (69-135): reads the window as it is
get_pressure_metrics ==
    /\ tp_calls < tp_budget
    /\ tp_calls' = tp_calls + 1
    /\ tp_call' = [NoTpCall EXCEPT !.op = "get_pressure_metrics", !.at = now,
                                   !.result = PressureState(ticks),
                                   !.num = Velocity(ticks).num,
                                   !.den = Velocity(ticks).den]
    /\ UNCHANGED << ticks, buy_volume_buffer, sell_volume_buffer, prev_mid >>
    /\ UNCHANGED << rmVars, bankVars, fnVars, tp_budget >>

\* lines 280-286: the rate as the fraction num / den
ReactionRate(tk) ==
    IF Len(tk) < 2 THEN [num |-> 0, den |-> 1]
    ELSE LET duration == tk[Len(tk)].time - tk[1].time
         IN IF duration <= 0 THEN [num |-> 0, den |-> 1]
            ELSE [num |-> Len(tk), den |-> duration]

\* calculate_reaction_rate (276-286): reads the window as it is
calculate_reaction_rate ==
    /\ tp_calls < tp_budget
    /\ tp_calls' = tp_calls + 1
    /\ tp_call' = [NoTpCall EXCEPT !.op = "calculate_reaction_rate", !.at = now,
                                   !.num = ReactionRate(ticks).num,
                                   !.den = ReactionRate(ticks).den]
    /\ UNCHANGED << ticks, buy_volume_buffer, sell_volume_buffer, prev_mid >>
    /\ UNCHANGED << rmVars, bankVars, fnVars, tp_budget >>

\* The ticks handed to analyze_order_flow: None, or last (None: no 'last'
\* key), bid, ask and volume
FlowTicks ==
    { [none |-> TRUE, last |-> None, bid |-> 0, ask |-> 0, volume |-> 0] } \cup
    { [none |-> FALSE, last |-> l, bid |-> 200000 + m, ask |-> 200010 + m, volume |-> v] :
          l \in {None, Some(0), Some(200010), Some(200005)}, m \in {0, 1}, v \in {0, 2, 6} }

\* deque(maxlen=100).append
BufferAppend(buf, v) ==
    IF Len(buf) >= max_buffer_size THEN Append(Tail(buf), v) ELSE Append(buf, v)

\* lines 149-185: 0 the buyer is the aggressor, 1 the seller, 2 neither
Aggressor(tick, prev) ==
    LET last_price == IF IsNone(tick.last) THEN tick.bid ELSE Val(tick.last)
        mid == tick.bid + tick.ask
    IN IF last_price # 0
       THEN (IF last_price >= tick.ask THEN 0 ELSE IF last_price <= tick.bid THEN 1 ELSE 2)
       ELSE (IF mid > prev THEN 0 ELSE IF mid < prev THEN 1 ELSE 2)

\* analyze_order_flow (137-220); the result is the imbalance as num / den
analyze_order_flow(tick) ==
    /\ tp_calls < tp_budget
    /\ tp_calls' = tp_calls + 1
    /\ IF tick.none
       THEN /\ tp_call' = [NoTpCall EXCEPT !.op = "analyze_order_flow", !.at = now]
            /\ UNCHANGED << buy_volume_buffer, sell_volume_buffer, prev_mid >>
       ELSE LET prev == IF IsNone(prev_mid) THEN tick.bid + tick.ask ELSE Val(prev_mid)
                side == Aggressor(tick, prev)
                buys == IF side = 0 THEN BufferAppend(buy_volume_buffer, 2 * tick.volume)
                        ELSE IF side = 2 THEN BufferAppend(buy_volume_buffer, tick.volume)
                        ELSE buy_volume_buffer
                sells == IF side = 1 THEN BufferAppend(sell_volume_buffer, 2 * tick.volume)
                         ELSE IF side = 2 THEN BufferAppend(sell_volume_buffer, tick.volume)
                         ELSE sell_volume_buffer
                total == SumSeq(buys) + SumSeq(sells)
            IN /\ buy_volume_buffer' = buys
               /\ sell_volume_buffer' = sells
               /\ prev_mid' = Some(tick.bid + tick.ask)
               /\ tp_call' = [NoTpCall EXCEPT
                                !.op = "analyze_order_flow", !.at = now,
                                !.num = IF total > 0 THEN SumSeq(buys) - SumSeq(sells) ELSE 0,
                                !.den = IF total > 0 THEN total ELSE 1]
    /\ UNCHANGED ticks
    /\ UNCHANGED << rmVars, bankVars, fnVars, tp_budget >>

\* line 240 with the two buffers counted one short
EnoughSamples_Fourteen(buy_samples, sell_samples) == buy_samples + sell_samples >= 14

\* line 240: (buy_samples + sell_samples) < 15 returns 0.0
EnoughSamples(buy_samples, sell_samples) == buy_samples + sell_samples >= 15

\* calculate_vpin (222-243); the result is num / den
Vpin(buys, sells) ==
    LET total == SumSeq(buys) + SumSeq(sells)
    IN IF total <= 0 \/ ~EnoughSamples(Len(buys), Len(sells))
       THEN [num |-> 0, den |-> 1]
       ELSE [num |-> Abs(SumSeq(buys) - SumSeq(sells)), den |-> total]

calculate_vpin ==
    /\ tp_calls < tp_budget
    /\ tp_calls' = tp_calls + 1
    /\ tp_call' = [NoTpCall EXCEPT
                     !.op = "calculate_vpin", !.at = now,
                     !.num = Vpin(buy_volume_buffer, sell_volume_buffer).num,
                     !.den = Vpin(buy_volume_buffer, sell_volume_buffer).den]
    /\ UNCHANGED << ticks, buy_volume_buffer, sell_volume_buffer, prev_mid >>
    /\ UNCHANGED << rmVars, bankVars, fnVars, tp_budget >>

\* ------------------------------------------------------------------------
\* LiquidityMapper (src/src/ai_core/liquidity_mapper.py)
\* Prices in hundredths.
\* ------------------------------------------------------------------------
RECURSIVE InsertSorted(_, _)
InsertSorted(x, sq) ==
    IF sq = <<>> THEN << x >>
    ELSE IF x <= Head(sq) THEN << x >> \o sq
    ELSE << Head(sq) >> \o InsertSorted(x, Tail(sq))

RECURSIVE SortAsc(_)
\* line 84: levels.sort()
SortAsc(sq) == IF sq = <<>> THEN <<>> ELSE InsertSorted(Head(sq), SortAsc(Tail(sq)))

\* lines 93-97: levels[i] - levels[i-1] <= levels[0] * 0.0005
MergesWithPrevious(prev, cur, first) == (cur - prev) * 10000 <= first * 5

RECURSIVE ClusterFrom(_, _, _, _)
\* lines 96-106: the clusters of the sorted levels from index i on
ClusterFrom(sorted, i, current_cluster, clusters) ==
    IF i > Len(sorted)
    THEN Append(clusters, current_cluster)
    ELSE IF MergesWithPrevious(sorted[i - 1], sorted[i], sorted[1])
    THEN ClusterFrom(sorted, i + 1, Append(current_cluster, sorted[i]), clusters)
    ELSE ClusterFrom(sorted, i + 1, << sorted[i] >>, Append(clusters, current_cluster))

\* _cluster_levels (80-108): the member levels of each wall, lowest wall first
ClusterLevels(levels) ==
    IF levels = <<>> THEN <<>>
    ELSE ClusterFrom(SortAsc(levels), 2, << SortAsc(levels)[1] >>, <<>>)

\* _process_cluster (110-118); the wall's price is price_sum / strength
ProcessCluster(members, is_resistance) ==
    [price_sum |-> SumSeq(members), strength |-> Len(members),
     type |-> IF is_resistance THEN "RESISTANCE" ELSE "SUPPORT"]

\* The pivot levels handed to _cluster_levels
PivotLevels == {100000, 200000, 200060, 200090, 200120}

LevelLists ==
    UNION { [1..n -> PivotLevels] : n \in 0..MaxLevels }

ClusterInputs ==
    { [levels |-> l, is_resistance |-> r] : l \in LevelLists, r \in BOOLEAN }

\* _cluster_levels is called and returns
ClusterCall ==
    /\ fn_pc = "idle"
    /\ fn_in \in ClusterInputs
    /\ fn_pc' = "_cluster_levels"
    /\ fn_out' = [clusters |-> ClusterLevels(fn_in.levels),
                  walls |-> [i \in 1..Len(ClusterLevels(fn_in.levels)) |->
                               ProcessCluster(ClusterLevels(fn_in.levels)[i],
                                              fn_in.is_resistance)]]
    /\ UNCHANGED fn_in
    /\ UNCHANGED << rmVars, bankVars, tpVars >>

\* lines 143 and 153 with a wall at exactly the threshold taken as close
WallBlocks_Inclusive(dist, current_price, strength) ==
    /\ 0 < dist
    /\ dist * 10000 <= current_price * 3
    /\ strength >= 2

\* lines 139-143 and 150-153: 0 < dist < current_price * 0.0003 and
\* strength >= 2, dist being the wall's distance on the side of the entry
WallBlocks(dist, current_price, strength) ==
    /\ 0 < dist
    /\ dist * 10000 < current_price * 3
    /\ strength >= 2

\* should_avoid_entry (120-156)
ShouldAvoidEntry(current_price, action, liquidity_map) ==
    IF action = "BUY"
    THEN \E i \in 1..Len(liquidity_map.resistances) :
            WallBlocks(liquidity_map.resistances[i].price - current_price, current_price,
                       liquidity_map.resistances[i].strength)
    ELSE IF action = "SELL"
    THEN \E i \in 1..Len(liquidity_map.supports) :
            WallBlocks(current_price - liquidity_map.supports[i].price, current_price,
                       liquidity_map.supports[i].strength)
    ELSE FALSE

\* The walls of the maps handed to should_avoid_entry, around a price of
\* 10000.00
AvoidPrice == 1000000

Walls ==
    { [price |-> pr, strength |-> st] :
          pr \in {999700, 999800, 1000000, 1000200, 1000300}, st \in {1, 2} }

WallLists == UNION { [1..n -> Walls] : n \in 0..MaxWalls }

AvoidInputs ==
    { [current_price |-> AvoidPrice, action |-> act,
       liquidity_map |-> [resistances |-> r, supports |-> sp]] :
          act \in {"BUY", "SELL", "HOLD"},
          r \in WallLists, sp \in {w \in WallLists : Len(w) <= 1} }

\* should_avoid_entry is called and returns
AvoidCall ==
    /\ fn_pc = "idle"
    /\ fn_in \in AvoidInputs
    /\ fn_pc' = "should_avoid_entry"
    /\ fn_out' = [blocked |-> ShouldAvoidEntry(fn_in.current_price, fn_in.action,
                                               fn_in.liquidity_map)]
    /\ UNCHANGED fn_in
    /\ UNCHANGED << rmVars, bankVars, tpVars >>

\* ------------------------------------------------------------------------
\* RiskManager.calculate_zone_parameters (258-286) called on its own
\* ------------------------------------------------------------------------
\* Groups of 1 to MaxGroup positions of either symbol, with the ATR in points
ZoneInputs ==
    { [symbol |-> sym,
       positions |-> [i \in 1..n |-> Pos(i, 0, OpenTime, 200000, 10)],
       atr_val |-> atr] :
          sym \in AllSymbols, n \in 1..MaxGroup,
          atr \in {Some(0), Some(10), Some(20), Some(21), Some(50), Some(51),
                   Some(200), Some(220), Some(230), Some(500), Some(510)} }

\* calculate_zone_parameters is called and returns
ZoneCall ==
    /\ fn_pc = "idle"
    /\ fn_in \in ZoneInputs
    /\ fn_pc' = "calculate_zone_parameters"
    /\ fn_out' = [zone_width |-> ZoneWidth(fn_in), tp_width |-> TpWidth(fn_in)]
    /\ UNCHANGED fn_in
    /\ UNCHANGED << rmVars, bankVars, tpVars >>

\* ------------------------------------------------------------------------
\* The boundaries and the trigger of execute_zone_recovery (363-444) on a
\* group with a recorded plan
\* ------------------------------------------------------------------------
\* A group of n positions of alternating sides, the anchor opened at 2000.00
AlternatingGroup(anchor_type, n) ==
    [i \in 1..n |-> Pos(i, IF i % 2 = 1 THEN anchor_type ELSE 1 - anchor_type,
                        OpenTime + i, 200000, 10)]

\* hedge_plan[f"hedge{hedge_level}_trigger_price"] in points, 0 when the plan
\* has no such key
StoredTriggers == {0, 199700, 199900, 200100, 200300}

TriggerBids == {199650, 199800, 199870, 199950, 200050, 200130, 200200, 200350}

TriggerInputs ==
    { [GoodCall EXCEPT !.positions = AlternatingGroup(ty, n),
                       !.bid = b, !.ask = b + 10,
                       !.plan_trigger = st] :
          ty \in {0, 1}, n \in 1..MaxGroup - 1, b \in TriggerBids, st \in StoredTriggers }

\* lines 363-444 for a bucket without a saved hedge level
TriggerCall ==
    /\ fn_pc = "idle"
    /\ fn_in \in TriggerInputs
    /\ fn_pc' = "trigger"
    /\ fn_out' = [hedge_level |-> EffectiveHedgeLevel(0, Len(fn_in.positions)),
                  zone |-> ZoneWidth(fn_in),
                  action |-> NextAction(fn_in, ZoneWidth(fn_in),
                                        EffectiveHedgeLevel(0, Len(fn_in.positions)))]
    /\ UNCHANGED fn_in
    /\ UNCHANGED << rmVars, bankVars, tpVars >>

\* ------------------------------------------------------------------------
\* retry_with_backoff (risk_manager.py 45-95); times in tenths of a second
\* ------------------------------------------------------------------------
\* What the operation hands back: None or a dict with a retcode
OperationResults == {None} \cup { Some([retcode |-> rc]) : rc \in {0, 10035, POSITION_GONE} }

\* One invocation of the operation: it raises, or returns (success, result)
Raises == [raised |-> TRUE, success |-> FALSE, result |-> None]

Outcomes ==
    {Raises} \cup { [raised |-> FALSE, success |-> ok, result |-> r] :
                      ok \in BOOLEAN, r \in OperationResults }

\* How long one invocation takes
OperationTimes == {0, 50, 110}

RetryInputs == { [max_attempts |-> m] : m \in 0..MaxAttempts }

Returned(ok, result) == Some([ok |-> ok, result |-> result])

\* lines 71-76 with no retcode ending the retries
NonRetryable_Never(result) == FALSE

\* lines 71-76: a truthy dict whose retcode is 10036
NonRetryable(result) == ~IsNone(result) /\ Val(result).retcode = POSITION_GONE

\* lines 56-57: the call is made
RetryCall ==
    /\ fn_pc = "idle"
    /\ fn_in \in RetryInputs
    /\ fn_pc' = "loop"
    /\ fn_out' = [attempt |-> 1, delay |-> initial_delay, elapsed |-> 0,
                  calls |-> <<>>, returned |-> None]
    /\ UNCHANGED fn_in
    /\ UNCHANGED << rmVars, bankVars, tpVars >>

\* lines 60-62: the wall-clock limit is passed at the head of an iteration
RetryTimeout ==
    /\ fn_pc = "loop"
    /\ fn_out.attempt <= fn_in.max_attempts
    /\ fn_out.elapsed > max_total_time
    /\ fn_pc' = "returned"
    /\ fn_out' = [fn_out EXCEPT !.returned = Returned(FALSE, None)]
    /\ UNCHANGED fn_in
    /\ UNCHANGED << rmVars, bankVars, tpVars >>

\* lines 64-93: one iteration invokes the operation and handles what it did
RetryAttempt(outcome, took) ==
    /\ fn_pc = "loop"
    /\ fn_out.attempt <= fn_in.max_attempts
    /\ fn_out.elapsed <= max_total_time
    /\ LET called == [fn_out EXCEPT !.calls = Append(@, outcome),
                                    !.elapsed = @ + took]
           again  == [called EXCEPT !.attempt = @ + 1,
                                    !.elapsed = @ + fn_out.delay,
                                    !.delay = @ * backoff_multiplier]
       IN IF ~outcome.raised /\ outcome.success
          THEN /\ fn_pc' = "returned"
               /\ fn_out' = [called EXCEPT !.returned = Returned(TRUE, outcome.result)]
          ELSE IF ~outcome.raised /\ NonRetryable(outcome.result)
          THEN /\ fn_pc' = "returned"
               /\ fn_out' = [called EXCEPT !.returned = Returned(FALSE, outcome.result)]
          ELSE IF fn_out.attempt < fn_in.max_attempts
          THEN /\ fn_pc' = "loop"
               /\ fn_out' = again
          ELSE /\ fn_pc' = "returned"
               /\ fn_out' = [called EXCEPT !.returned = Returned(FALSE, outcome.result)]
    /\ UNCHANGED fn_in
    /\ UNCHANGED << rmVars, bankVars, tpVars >>

\* line 95: the loop ends without an iteration having returned
RetryExhausted ==
    /\ fn_pc = "loop"
    /\ fn_out.attempt > fn_in.max_attempts
    /\ fn_pc' = "returned"
    /\ fn_out' = [fn_out EXCEPT !.returned = Returned(FALSE, None)]
    /\ UNCHANGED fn_in
    /\ UNCHANGED << rmVars, bankVars, tpVars >>

\* ------------------------------------------------------------------------
\* Specifications
\* ------------------------------------------------------------------------
Init == InitRM /\ InitBank /\ InitAux /\ budget = MaxCalls /\ open_total = 1

Next ==
    \/ Tick
    \/ \E t \in Threads, a \in RMCalls : E_Start(t, a)
    \/ \E t \in Threads : E_Mark(t)
    \/ \E t \in Threads : E_Strict(t)
    \/ \E t \in Threads : E_TradeAllowed(t)
    \/ \E t \in Threads : E_Coord(t)
    \/ \E t \in Threads : E_Gate(t)
    \/ \E t \in Threads : E_GetStateCreate(t)
    \/ \E t \in Threads : E_GetStateReturn(t)
    \/ \E t \in Threads : E_Plan(t)
    \/ \E t \in Threads : E_VolLock(t)
    \/ \E t \in Threads : E_Vol(t)
    \/ \E t \in Threads : E_Trigger(t)
    \/ \E t \in Threads : E_Size(t)
    \/ \E t \in Threads : E_Order(t)
    \/ \E t \in Threads : E_Record(t)
    \/ \E t \in Threads : E_Meta(t)
    \/ \E t \in Threads : E_LastHedgeTime(t)
    \/ \E t \in Threads : E_ActiveHedges(t)
    \/ \E t \in Threads : E_AddPosition(t)
    \/ \E t \in Threads, a \in RMCalls : V_Start(t, a)
    \/ \E t \in Threads : V_GetStateCreate(t)
    \/ \E t \in Threads : V_GetStateReturn(t)
    \/ \E t \in Threads : V_Lock(t)
    \/ \E t \in Threads : V_Checks(t)
    \/ \E t \in Threads : V_GetPositions(t)
    \/ \E t \in Threads : V_GetTick(t)
    \/ \E t \in Threads : R_Start(t, "XAUUSD")
    \/ \E t \in Threads : R_Delete(t)
    \/ \E t \in Threads : S_Start(t, "XAUUSD")
    \/ \E t \in Threads : S_GetStateCreate(t)
    \/ \E t \in Threads : S_GetStateReturn(t)
    \/ \E t \in Threads : S_Lock(t)
    \/ \E t \in Threads : S_Read(t)
    \/ \E t \in Threads : Return(t)

Spec == Init /\ [][Next]_vars

\* Two callers on one symbol that has no HedgeState yet: evaluations and
\* status reads, no reset
InitRace == InitRM /\ InitBank /\ InitAux /\ budget = MaxCalls /\ open_total = 1

NextRace ==
    \/ Tick
    \/ \E t \in Threads : E_Start(t, GoodCall)
    \/ \E t \in Threads : E_Mark(t)
    \/ \E t \in Threads : E_Strict(t)
    \/ \E t \in Threads : E_TradeAllowed(t)
    \/ \E t \in Threads : E_Coord(t)
    \/ \E t \in Threads : E_Gate(t)
    \/ \E t \in Threads : E_GetStateReturn(t)
    \/ \E t \in Threads : E_Plan(t)
    \/ \E t \in Threads : E_VolLock(t)
    \/ \E t \in Threads : E_Vol(t)
    \/ \E t \in Threads : E_Trigger(t)
    \/ \E t \in Threads : E_Size(t)
    \/ \E t \in Threads : E_Order(t)
    \/ \E t \in Threads : E_Record(t)
    \/ \E t \in Threads : E_Meta(t)
    \/ \E t \in Threads : E_LastHedgeTime(t)
    \/ \E t \in Threads : E_ActiveHedges(t)
    \/ \E t \in Threads : E_AddPosition(t)
    \/ \E t \in Threads : V_GetStateCreate(t)
    \/ \E t \in Threads : V_GetStateReturn(t)
    \/ \E t \in Threads : V_Lock(t)
    \/ \E t \in Threads : V_Checks(t)
    \/ \E t \in Threads : V_GetPositions(t)
    \/ \E t \in Threads : V_GetTick(t)
    \/ \E t \in Threads : S_Start(t, "XAUUSD")
    \/ \E t \in Threads : S_GetStateCreate(t)
    \/ \E t \in Threads : S_GetStateReturn(t)
    \/ \E t \in Threads : S_Lock(t)
    \/ \E t \in Threads : S_Read(t)
    \/ \E t \in Threads : Return(t)

SpecRace == InitRace /\ [][NextRace]_vars

NextBank ==
    \/ \E r \in Registrations : register_toxic_asset(r)
    \/ \E amount \in DepositAmounts : deposit_tithe(amount)
    \/ B_Start
    \/ B_Scan
    \/ B_Close
    \/ B_Return

SpecBank == Init /\ [][NextBank]_vars

\* The ledger with a broker that always quotes and always confirms, groups
\* whose positions hold whole increments, and on every pass a candidate the
\* pool can pay for: the last bucket of a pass is quoted within the balance.
WholeIncrements(ps) ==
    /\ ps # <<>>
    /\ \A i \in 1..Len(ps) : volume[ps[i]] >= NIBBLE_SIZE /\ volume[ps[i]] % NIBBLE_SIZE = 0

CoveredTicks ==
    LET ps == toxic_assets[AssetIndex(bloc.items[bloc.idx])].positions
        quoting == { k \in LastTicks : ~k.none }
    IN IF bloc.idx < Len(bloc.items)
       THEN quoting
       ELSE { k \in quoting : Affordable(tithe_balance, RequiredTithe(Loser(ps, volume), k)) }

B_Pass == B_Begin /\ UNCHANGED passes

B_ScanCovered == bpc = "scan" /\ B_ScanWith(CoveredTicks)

B_CloseConfirmed == B_CloseWith({TRUE})

NextLiquidation ==
    \/ \E r \in Registrations : WholeIncrements(r.positions) /\ register_toxic_asset(r)
    \/ \E amount \in DepositAmounts : deposit_tithe(amount)
    \/ B_Pass
    \/ B_ScanCovered
    \/ B_CloseConfirmed
    \/ B_Return

\* passes are repeated, and a pass that has begun runs to its end
SpecLiquidation ==
    /\ Init
    /\ [][NextLiquidation]_vars
    /\ WF_vars(B_Pass) /\ WF_vars(B_ScanCovered) /\ WF_vars(B_CloseConfirmed)
    /\ WF_vars(B_Return)

\* The analyzer's tick window: ticks arrive and metrics are asked for while
\* time goes by
InitTicks ==
    /\ InitRM /\ InitBank /\ budget = 0 /\ open_total = 1
    /\ ticks = <<>>
    /\ buy_volume_buffer = <<>>
    /\ sell_volume_buffer = <<>>
    /\ prev_mid = None
    /\ tp_call = NoTpCall
    /\ tp_calls = 0
    /\ tp_budget = MaxTickCalls
    /\ InitFn

NextTicks ==
    \/ \E d \in WaitSteps : Advance(d)
    \/ \E tick \in AddTickInputs : add_tick(tick)
    \/ get_pressure_metrics
    \/ calculate_reaction_rate

SpecTicks == InitTicks /\ [][NextTicks]_vars

\* n entries of v
Fill(n, v) == [i \in 1..n |-> v]

\* The analyzer's volume buffers after earlier classified ticks, then up to
\* MaxFlowCalls calls
InitFlow ==
    /\ InitRM /\ InitBank /\ budget = 0 /\ open_total = 1
    /\ ticks = <<>>
    /\ buy_volume_buffer \in {<<>>, Fill(7, 4), Fill(12, 4), Fill(100, 4)}
    /\ sell_volume_buffer \in {<<>>, Fill(6, 2), Fill(7, 2)}
    /\ prev_mid = IF buy_volume_buffer = <<>> /\ sell_volume_buffer = <<>>
                  THEN None ELSE Some(400010)
    /\ tp_call = NoTpCall
    /\ tp_calls = 0
    /\ tp_budget = MaxFlowCalls
    /\ InitFn

NextFlow ==
    \/ \E tick \in FlowTicks : analyze_order_flow(tick)
    \/ calculate_vpin

SpecFlow == InitFlow /\ [][NextFlow]_vars

\* _cluster_levels on each list of pivot levels
InitCluster ==
    /\ InitRM /\ InitBank /\ InitTP /\ budget = 0 /\ open_total = 1
    /\ fn_pc = "idle"
    /\ fn_in \in ClusterInputs
    /\ fn_out = NoOut

SpecCluster == InitCluster /\ [][ClusterCall]_vars

\* should_avoid_entry on each price, action and map
InitAvoid ==
    /\ InitRM /\ InitBank /\ InitTP /\ budget = 0 /\ open_total = 1
    /\ fn_pc = "idle"
    /\ fn_in \in AvoidInputs
    /\ fn_out = NoOut

SpecAvoid == InitAvoid /\ [][AvoidCall]_vars

\* calculate_zone_parameters on each group and ATR
InitZone ==
    /\ InitRM /\ InitBank /\ InitTP /\ budget = 0 /\ open_total = 1
    /\ fn_pc = "idle"
    /\ fn_in \in ZoneInputs
    /\ fn_out = NoOut

SpecZone == InitZone /\ [][ZoneCall]_vars

\* The trigger on each group, quote and recorded plan
InitTrigger ==
    /\ InitRM /\ InitBank /\ InitTP /\ budget = 0 /\ open_total = 1
    /\ fn_pc = "idle"
    /\ fn_in \in TriggerInputs
    /\ fn_out = NoOut

SpecTrigger == InitTrigger /\ [][TriggerCall]_vars

\* retry_with_backoff on every run of the operation's outcomes
InitRetry ==
    /\ InitRM /\ InitBank /\ InitTP /\ budget = 0 /\ open_total = 1
    /\ fn_pc = "idle"
    /\ fn_in \in RetryInputs
    /\ fn_out = NoOut

NextRetry ==
    \/ RetryCall
    \/ RetryTimeout
    \/ \E outcome \in Outcomes, took \in OperationTimes : RetryAttempt(outcome, took)
    \/ RetryExhausted

SpecRetry == InitRetry /\ [][NextRetry]_vars

\* The ledger's registrations and passes while time goes by
NextRegister ==
    \/ Tick
    \/ \E r \in Registrations : register_toxic_asset(r)
    \/ B_Start
    \/ B_Scan
    \/ B_Close
    \/ B_Return

SpecRegister == Init /\ [][NextRegister]_vars


\* One caller at a time, with the wider set of calls
InitSeq ==
    /\ InitRM /\ InitBank /\ InitAux /\ budget = MaxSeqCalls
    /\ open_total \in {1, global_position_cap - 1}

SeqThreads == {1}

NextSeq ==
    \/ Tick
    \/ \E t \in SeqThreads, a \in SeqCalls : E_Start(t, a)
    \/ \E t \in SeqThreads : E_Mark(t)
    \/ \E t \in SeqThreads : E_Strict(t)
    \/ \E t \in SeqThreads : E_TradeAllowed(t)
    \/ \E t \in SeqThreads : E_Coord(t)
    \/ \E t \in SeqThreads : E_Gate(t)
    \/ \E t \in SeqThreads : E_GetStateCreate(t)
    \/ \E t \in SeqThreads : E_GetStateReturn(t)
    \/ \E t \in SeqThreads : E_Plan(t)
    \/ \E t \in SeqThreads : E_VolLock(t)
    \/ \E t \in SeqThreads : E_Vol(t)
    \/ \E t \in SeqThreads : E_Trigger(t)
    \/ \E t \in SeqThreads : E_Size(t)
    \/ \E t \in SeqThreads : E_Order(t)
    \/ \E t \in SeqThreads : E_Record(t)
    \/ \E t \in SeqThreads : E_Meta(t)
    \/ \E t \in SeqThreads : E_LastHedgeTime(t)
    \/ \E t \in SeqThreads : E_ActiveHedges(t)
    \/ \E t \in SeqThreads : E_AddPosition(t)
    \/ \E t \in SeqThreads, a \in SeqCalls : V_Start(t, a)
    \/ \E t \in SeqThreads : V_GetStateCreate(t)
    \/ \E t \in SeqThreads : V_GetStateReturn(t)
    \/ \E t \in SeqThreads : V_Lock(t)
    \/ \E t \in SeqThreads : V_Checks(t)
    \/ \E t \in SeqThreads : V_GetPositions(t)
    \/ \E t \in SeqThreads : V_GetTick(t)
    \/ \E t \in SeqThreads : R_Start(t, "XAUUSD")
    \/ \E t \in SeqThreads : R_Delete(t)
    \/ \E t \in SeqThreads : S_Start(t, "XAUUSD")
    \/ \E t \in SeqThreads : S_GetStateCreate(t)
    \/ \E t \in SeqThreads : S_GetStateReturn(t)
    \/ \E t \in SeqThreads : S_Lock(t)
    \/ \E t \in SeqThreads : S_Read(t)
    \/ \E t \in SeqThreads : Return(t)

SpecSeq == InitSeq /\ [][NextSeq]_vars


\* One caller, two calls from the admission-gate and trigger scenarios
InitGate ==
    /\ InitRM /\ InitBank /\ InitAux /\ budget = MaxGateCalls
    /\ open_total \in {1, global_position_cap}

NextGate ==
    \/ Tick
    \/ \E t \in SeqThreads, a \in GateCalls : E_Start(t, a)
    \/ \E t \in SeqThreads : E_Mark(t)
    \/ \E t \in SeqThreads : E_Strict(t)
    \/ \E t \in SeqThreads : E_TradeAllowed(t)
    \/ \E t \in SeqThreads : E_Coord(t)
    \/ \E t \in SeqThreads : E_Gate(t)
    \/ \E t \in SeqThreads : E_GetStateReturn(t)
    \/ \E t \in SeqThreads : E_Plan(t)
    \/ \E t \in SeqThreads : E_VolLock(t)
    \/ \E t \in SeqThreads : E_Vol(t)
    \/ \E t \in SeqThreads : E_Trigger(t)
    \/ \E t \in SeqThreads : E_Size(t)
    \/ \E t \in SeqThreads : E_Order(t)
    \/ \E t \in SeqThreads : E_Record(t)
    \/ \E t \in SeqThreads : E_Meta(t)
    \/ \E t \in SeqThreads : E_LastHedgeTime(t)
    \/ \E t \in SeqThreads : E_ActiveHedges(t)
    \/ \E t \in SeqThreads : E_AddPosition(t)
    \/ \E t \in SeqThreads, a \in GateCalls : V_Start(t, a)
    \/ \E t \in SeqThreads : V_GetStateCreate(t)
    \/ \E t \in SeqThreads : V_GetStateReturn(t)
    \/ \E t \in SeqThreads : V_Lock(t)
    \/ \E t \in SeqThreads : V_Checks(t)
    \/ \E t \in SeqThreads : V_GetPositions(t)
    \/ \E t \in SeqThreads : V_GetTick(t)
    \/ \E t \in SeqThreads : Return(t)

SpecGate == InitGate /\ [][NextGate]_vars

\* One caller evaluating one group again and again in a calm market
InitCooldown == InitRM /\ InitBank /\ InitAux /\ budget = MaxGateCalls /\ open_total = 1

NextCooldown ==
    \/ \E d \in CooldownWaits : Advance(d)
    \/ \E t \in SeqThreads, a \in CooldownCalls : E_Start(t, a)
    \/ \E t \in SeqThreads : E_Mark(t)
    \/ \E t \in SeqThreads : E_Strict(t)
    \/ \E t \in SeqThreads : E_TradeAllowed(t)
    \/ \E t \in SeqThreads : E_Coord(t)
    \/ \E t \in SeqThreads : E_Gate(t)
    \/ \E t \in SeqThreads : E_GetStateReturn(t)
    \/ \E t \in SeqThreads : E_Plan(t)
    \/ \E t \in SeqThreads : E_VolLock(t)
    \/ \E t \in SeqThreads : E_Vol(t)
    \/ \E t \in SeqThreads : E_Trigger(t)
    \/ \E t \in SeqThreads : E_Size(t)
    \/ \E t \in SeqThreads : E_Order(t)
    \/ \E t \in SeqThreads : E_Record(t)
    \/ \E t \in SeqThreads : E_Meta(t)
    \/ \E t \in SeqThreads : E_LastHedgeTime(t)
    \/ \E t \in SeqThreads : E_ActiveHedges(t)
    \/ \E t \in SeqThreads : E_AddPosition(t)
    \/ \E t \in SeqThreads, a \in CooldownCalls : V_Start(t, a)
    \/ \E t \in SeqThreads : V_GetStateCreate(t)
    \/ \E t \in SeqThreads : V_GetStateReturn(t)
    \/ \E t \in SeqThreads : V_Lock(t)
    \/ \E t \in SeqThreads : V_Checks(t)
    \/ \E t \in SeqThreads : V_GetPositions(t)
    \/ \E t \in SeqThreads : V_GetTick(t)
    \/ \E t \in SeqThreads : Return(t)

SpecCooldown == InitCooldown /\ [][NextCooldown]_vars

\* One caller evaluating one group under changing volatility ratios
InitVol == InitRM /\ InitBank /\ InitAux /\ budget = MaxGateCalls /\ open_total = 1

NextVol ==
    \/ Tick
    \/ \E t \in SeqThreads, a \in VolCalls : E_Start(t, a)
    \/ \E t \in SeqThreads : E_Mark(t)
    \/ \E t \in SeqThreads : E_Strict(t)
    \/ \E t \in SeqThreads : E_TradeAllowed(t)
    \/ \E t \in SeqThreads : E_Coord(t)
    \/ \E t \in SeqThreads : E_Gate(t)
    \/ \E t \in SeqThreads : E_GetStateReturn(t)
    \/ \E t \in SeqThreads : E_Plan(t)
    \/ \E t \in SeqThreads : E_VolLock(t)
    \/ \E t \in SeqThreads : E_Vol(t)
    \/ \E t \in SeqThreads : E_Trigger(t)
    \/ \E t \in SeqThreads : E_Size(t)
    \/ \E t \in SeqThreads : E_Order(t)
    \/ \E t \in SeqThreads : E_Record(t)
    \/ \E t \in SeqThreads : E_Meta(t)
    \/ \E t \in SeqThreads : E_LastHedgeTime(t)
    \/ \E t \in SeqThreads : E_ActiveHedges(t)
    \/ \E t \in SeqThreads : E_AddPosition(t)
    \/ \E t \in SeqThreads, a \in VolCalls : V_Start(t, a)
    \/ \E t \in SeqThreads : V_GetStateCreate(t)
    \/ \E t \in SeqThreads : V_GetStateReturn(t)
    \/ \E t \in SeqThreads : V_Lock(t)
    \/ \E t \in SeqThreads : V_Checks(t)
    \/ \E t \in SeqThreads : V_GetPositions(t)
    \/ \E t \in SeqThreads : V_GetTick(t)
    \/ \E t \in SeqThreads : Return(t)

SpecVol == InitVol /\ [][NextVol]_vars

\* Two callers evaluating two symbols while the account is one position
\* short of the global cap
InitCap == InitRM /\ InitBank /\ InitAux /\ budget = MaxCalls /\ open_total = global_position_cap - 1

NextCap ==
    \/ Tick
    \/ \E t \in Threads : E_Start(t, CapCall(t))
    \/ \E t \in Threads : E_Mark(t)
    \/ \E t \in Threads : E_Strict(t)
    \/ \E t \in Threads : E_TradeAllowed(t)
    \/ \E t \in Threads : E_Coord(t)
    \/ \E t \in Threads : E_Gate(t)
    \/ \E t \in Threads : E_GetStateReturn(t)
    \/ \E t \in Threads : E_Plan(t)
    \/ \E t \in Threads : E_VolLock(t)
    \/ \E t \in Threads : E_Vol(t)
    \/ \E t \in Threads : E_Trigger(t)
    \/ \E t \in Threads : E_Size(t)
    \/ \E t \in Threads : E_Order(t)
    \/ \E t \in Threads : E_Record(t)
    \/ \E t \in Threads : E_Meta(t)
    \/ \E t \in Threads : E_LastHedgeTime(t)
    \/ \E t \in Threads : E_ActiveHedges(t)
    \/ \E t \in Threads : E_AddPosition(t)
    \/ \E t \in Threads : V_GetStateCreate(t)
    \/ \E t \in Threads : V_GetStateReturn(t)
    \/ \E t \in Threads : V_Lock(t)
    \/ \E t \in Threads : V_Checks(t)
    \/ \E t \in Threads : V_GetPositions(t)
    \/ \E t \in Threads : V_GetTick(t)
    \/ \E t \in Threads : Return(t)

SpecCap == InitCap /\ [][NextCap]_vars


\* One caller observing a sequence of spreads
InitSpread == InitRM /\ InitBank /\ InitAux /\ budget = MaxSpreadCalls /\ open_total = 1

NextSpread ==
    \/ Tick
    \/ \E t \in SeqThreads, cur \in Spreads : H_Call(t, cur)
    \/ \E t \in SeqThreads : Return(t)

SpecSpread == InitSpread /\ [][NextSpread]_vars


\* ------------------------------------------------------------------------
\* Properties
\* ------------------------------------------------------------------------
IsEZR(t) == op[t] = "execute_zone_recovery"
Symbol(t) == arg[t].symbol

\* Thread t finishes its call in this step
Finishes(t) == pc[t] # "done" /\ pc'[t] = "done"

\* C1: every execute_zone_recovery call that set the pending marker and
\* returns (True or False) leaves the symbol without a marker, also when the
\* hedge order was confirmed.
C1_MarkerClearedOnReturn ==
    [][\A t \in Threads :
          (Finishes(t) /\ IsEZR(t) /\ loc'[t].marked /\ ret'[t] \in {"True", "False"})
             => pending'[Symbol(t)] = 0]_vars

\* C2: the ledger's tithe_balance is never below zero.
C2_BalanceNonNegative == tithe_balance >= 0

\* C2 witness: a paid nibble has used up the whole pool.
C2_Witness == total_debt_repaid > 0 /\ tithe_balance = 0

\* C3: of two execute_zone_recovery calls for one symbol that overlap, or of
\* which the second starts less than 10 s after the first, at most one
\* obtains a ticket.
C3_NoDoubleSubmission ==
    [][\A t \in Threads :
          (IsEZR(t) /\ ~loc[t].ticket /\ loc'[t].ticket)
             => /\ \A u \in Threads \ {t} :
                      ~(IsEZR(u) /\ Symbol(u) = Symbol(t) /\ loc[u].ticket)
                /\ \/ lastTicketStart[Symbol(t)] = 0
                   \/ loc[t].start - lastTicketStart[Symbol(t)] >= PendingWindow]_vars

\* C4: at most one thread at a time is inside the six admission checks of a
\* symbol.
InChecks(t) == pc[t] \in {"v_checks", "b_get_positions", "b_get_tick"}

C4_OneThreadInChecks ==
    \A t, u \in Threads :
        (t # u /\ InChecks(t) /\ InChecks(u)) => Symbol(t) # Symbol(u)

\* C5: no broker call is in progress while the calling thread holds a
\* HedgeState lock.
BrokerPCs == {"b_is_trade_allowed", "b_get_positions", "b_get_tick",
              "b_get_account_info", "b_execute_order"}

HoldsLock(t) == \E o \in Objs : lock[o] = t

C5_NoBrokerCallUnderLock ==
    \A t \in Threads : pc[t] \in BrokerPCs => ~HoldsLock(t)

\* C6: every write and every read of last_hedge_time, active_hedges,
\* high_vol_mode and volatility_scale is done by a thread that holds the
\* lock of that HedgeState.
FieldReadPCs == {"b_get_tick", "e_vol", "e_active_hedges", "s_read"}

C6_FieldsUnderLock ==
    [][/\ \A o \in Objs :
            hs'[o] # hs[o] => \E t \in Threads : pc'[t] # pc[t] /\ lock[o] = t
       /\ \A t \in Threads :
            (pc[t] \in FieldReadPCs /\ pc'[t] # pc[t]) => lock[loc[t].st] = t]_vars

\* C7 (as claimed): the bucket's hedge level, last_hedge_time and
\* active_hedges change only in a call whose order carried a ticket; a
\* changed hedge level or active_hedges is exactly 1 above its old value.
CommitPCs == {"e_meta", "e_last_hedge_time", "e_active_hedges"}

Committer(t) == IsEZR(t) /\ pc[t] \in CommitPCs /\ pc'[t] # pc[t]

CommitOnlyWithTicket ==
    /\ \A k \in Tickets :
          trades'[k] # trades[k] => \E t \in Threads : Committer(t) /\ loc[t].ticket
    /\ \A o \in Objs :
          (\/ hs'[o].last_hedge_time # hs[o].last_hedge_time
           \/ hs'[o].active_hedges # hs[o].active_hedges)
             => \E t \in Threads : Committer(t) /\ loc[t].ticket /\ loc[t].st = o
    /\ \A o \in Objs :
          hs'[o].active_hedges # hs[o].active_hedges
             => hs'[o].active_hedges = hs[o].active_hedges + 1

C7_LevelUpByOne ==
    [][/\ CommitOnlyWithTicket
       /\ \A k \in Tickets : trades'[k] # trades[k] => trades'[k] = trades[k] + 1]_vars

\* C7 (amended): as above, but a changed hedge level is 1 above the level the
\* call works with: the saved level, or the group size less one when no level
\* is saved.
C7_LevelFromEffective ==
    [][/\ CommitOnlyWithTicket
       /\ \A t \in Threads :
             (pc[t] = "e_meta" /\ pc'[t] # pc[t])
                => LET k == FirstPos(arg[t].positions).ticket
                   IN trades'[k] =
                        EffectiveHedgeLevel(trades[k], Len(arg[t].positions)) + 1]_vars

\* C7 witness: a confirmed order for a group of two without a saved level
\* has been committed.
C7_Witness ==
    \E t \in Threads :
        /\ pc[t] = "e_add_position"
        /\ loc[t].ticket
        /\ Len(arg[t].positions) = 2
        /\ trades[FirstPos(arg[t].positions).ticket] = 2
        /\ hs[loc[t].st].active_hedges = 1
        /\ hs[loc[t].st].last_hedge_time = now

\* C8: a close_position that reports failure leaves tithe_balance,
\* total_debt_repaid, the tracked volumes, the position lists and the set of
\* toxic assets as they were.
CloseFails == bpc = "closing" /\ bpc' # "closing" /\ bret' # "True"

C8_FailedCloseChangesNothing ==
    [][CloseFails => UNCHANGED << tithe_balance, total_debt_repaid, volume,
                                  toxic_assets >>]_vars

\* C8 witness: a pass has ended after the close of a costly increment failed.
C8_Witness ==
    /\ bpc = "done" /\ bret = "False"
    /\ bloc.loser # 0 /\ bloc.required > 0
    /\ bloc.requests # <<>>
    /\ tithe_balance >= bloc.required

\* C9: execute_zone_recovery never raises to its caller.
C9_NeverRaises ==
    \A t \in Threads : (pc[t] = "done" /\ IsEZR(t)) => ret[t] # "raised"

\* C10 (as claimed): a rejecting validate_hedge_conditions leaves the spread
\* history, the map of HedgeStates and every HedgeState field as they were.
Rejected(t) ==
    pc[t] = "done" /\ op[t] = "validate_hedge_conditions" /\ ret[t] = "False"

C10_RejectChangesNothing ==
    \A t \in Threads :
        Rejected(t) => /\ spread_history = loc[t].snap_hist
                       /\ hedge_states[Symbol(t)] = loc[t].snap_map
                       /\ hs = loc[t].snap_hs

\* C10 (amended): a rejecting validate_hedge_conditions leaves every
\* HedgeState field as it was; the symbol's HedgeState is the one from before
\* the call or a new one with default fields, and the spread history is the
\* one from before the call or that with the current spread recorded (the
\* oldest of 50 samples dropped).
C10_RejectKeepsFields ==
    \A t \in Threads :
        Rejected(t) =>
            /\ hs = loc[t].snap_hs
            /\ \/ hedge_states[Symbol(t)] = loc[t].snap_map
               \/ /\ loc[t].snap_map = 0
                  /\ hedge_states[Symbol(t)] # 0
                  /\ hs[hedge_states[Symbol(t)]] = NewHedgeState
            /\ \/ spread_history = loc[t].snap_hist
               \/ spread_history = Append(loc[t].snap_hist, arg[t].spread)
               \/ /\ Len(loc[t].snap_hist) = SpreadHistoryCap
                  /\ spread_history = Tail(Append(loc[t].snap_hist, arg[t].spread))

\* C10 witness: a call has been rejected by the spread check after it
\* recorded the spread.
C10_Witness ==
    \E t \in Threads :
        /\ Rejected(t)
        /\ loc[t].snap_hist # <<>>
        /\ spread_history # loc[t].snap_hist

\* C11: validate_hedge_conditions applies its checks in the order spread
\* health, per-symbol cap, global cap, minimum age, minimum distance, adaptive
\* cooldown: the reason it returns is that of the first check that fails on
\* the values the call saw, it asks the broker for the positions only when the
\* first two passed and for the tick only when the first three passed, and it
\* returns True exactly when no check fails.  A position list the broker
\* cannot give counts as a failure of the global cap.
Validated(t) ==
    /\ pc[t] = "done"
    /\ op[t] = "validate_hedge_conditions"
    /\ ret[t] \in {"True", "False"}
    /\ arg[t].positions # <<>>

SpreadFails(t) ==
    /\ arg[t].spread > 0
    /\ loc[t].snap_hist # <<>>
    /\ arg[t].spread * 10 * Len(loc[t].snap_hist)
          > SumSeq(loc[t].snap_hist) * max_spread_multiplier_x10

EarliestFailure(t) ==
    LET a == arg[t]
        l == loc[t]
    IN IF SpreadFails(t) THEN "spread"
       ELSE IF CapReject(a) THEN "cap"
       ELSE IF l.reason = "fetch_failed" THEN "fetch_failed"
       ELSE IF GlobalCapReject(l.total) THEN "global_cap"
       ELSE IF AgeReject(a, l.server_time) THEN "age"
       ELSE IF DistReject(a) THEN "distance"
       ELSE IF CooldownReject(a, hs[l.st].last_hedge_time, l.checked_at) THEN "cooldown"
       ELSE "ok"

C11_ChecksInOrder ==
    \A t \in Threads :
        Validated(t) =>
            /\ loc[t].reason = EarliestFailure(t)
            /\ loc[t].asked_positions <=> loc[t].reason \notin {"spread", "cap"}
            /\ loc[t].asked_tick <=>
                  loc[t].reason \notin {"spread", "cap", "fetch_failed", "global_cap"}
            /\ (ret[t] = "True") <=> (loc[t].reason = "ok")

\* C11 witness: a call in which the spread, the per-symbol cap and the
\* distance would all fail has returned the spread's reason.
C11_Witness ==
    \E t \in Threads :
        /\ Validated(t)
        /\ SpreadFails(t) /\ CapReject(arg[t]) /\ DistReject(arg[t])
        /\ loc[t].reason = "spread"
        /\ ret[t] = "False"

\* C12: no order is passed to broker.execute_order while the account holds
\* as many open positions as the global cap allows, and the orders confirmed
\* never take the account above the cap, whatever the interleaving of the
\* callers of different symbols.
C12_TotalWithinCap ==
    /\ open_total <= global_position_cap
    /\ \A t \in Threads : pc[t] = "b_execute_order" => open_total < global_position_cap

\* C13: is_spread_healthy returns False exactly when a spread had been
\* observed before the call and the current spread is strictly greater than
\* 2.5 times the average of the history as it stood before the call; the
\* first spread returns True and becomes the history.
SpreadChecked(t) == pc[t] = "done" /\ op[t] = "is_spread_healthy"

C13_VetoIffAboveAverage ==
    \A t \in Threads :
        SpreadChecked(t) =>
            LET before == loc[t].snap_hist
                cur == arg[t].spread
            IN /\ (ret[t] = "False") <=>
                     /\ before # <<>>
                     /\ 2 * cur * Len(before) > 5 * SumSeq(before)
               /\ ret[t] \in {"True", "False"}
               /\ before = <<>> => spread_history = << cur >>

\* C13 witness: with 10 and 25 recorded (average 17.5, limit 43.75) a spread
\* of 40 has passed.
C13_Witness ==
    \E t \in Threads :
        /\ SpreadChecked(t)
        /\ loc[t].snap_hist = << 10, 25 >>
        /\ arg[t].spread = 40
        /\ ret[t] = "True"

\* The end-to-end scenario: one BUY opened 10 s ago, ATR 2.0, the bid 3.00
\* below the open price, spread 10, VPIN 0.1, oscillator 50.
Scenario(t) == IsEZR(t) /\ arg[t] = GoodCall

\* The gate has seen a normal spread, fewer positions than the cap, a
\* position aged 10 s and no hedge within the cooldown.
ScenarioGate(t) ==
    /\ Scenario(t)
    /\ pc[t] = "e_gate"
    /\ ~SpreadFails(t)
    /\ loc[t].asked_tick
    /\ loc[t].server_time - FirstPos(arg[t].positions).time = 10
    /\ loc[t].checked_at - hs[loc[t].st].last_hedge_time >= COOLDOWN_MAX

ScenarioWithZone(t, pips) ==
    /\ ScenarioGate(t) => loc[t].can_hedge
    /\ (Scenario(t) /\ pc[t] = "e_trigger") =>
          /\ loc[t].zone = pips * 1000
          /\ pc'[t] # "e_trigger" =>
                /\ pc'[t] = "b_get_account_info"
                /\ loc'[t].action = "SELL"

\* C14 (as claimed): in the scenario the gate passes, the zone is 20 pips
\* wide and the SELL trigger fires.
C14_ZoneTwentyPips == [][\A t \in Threads : ScenarioWithZone(t, 20)]_vars

\* C14 (amended): in the scenario the gate passes, the zone is 160 pips wide
\* (80% of the 200 pips of the ATR) and the SELL trigger fires.
C14_ZoneFromAtr == [][\A t \in Threads : ScenarioWithZone(t, 160)]_vars

\* C14 witness: the scenario has passed the gate and fired its SELL trigger
\* with a zone of 160 pips.
C14_Witness ==
    \E t \in Threads :
        /\ Scenario(t)
        /\ pc[t] = "b_get_account_info"
        /\ loc[t].can_hedge
        /\ loc[t].server_time - FirstPos(arg[t].positions).time = 10
        /\ loc[t].zone = 160000
        /\ loc[t].action = "SELL"

\* C15: when the trigger's side is BUY with the oscillator below 30, or SELL
\* with the oscillator above 70, execute_zone_recovery passes no order to the
\* broker and returns False, with the hedge levels, active_hedges and
\* last_hedge_time as they were when the call began and the symbol's pending
\* marker removed.
ElasticCase(t) ==
    /\ IsEZR(t)
    /\ pc[t] = "e_trigger"
    /\ ~IsNone(arg[t].rsi_value)
    /\ LET raw == RawAction(arg[t], loc[t].zone, loc[t].hedge_level)
       IN \/ raw = "BUY"  /\ Val(arg[t].rsi_value) < 30
          \/ raw = "SELL" /\ Val(arg[t].rsi_value) > 70

CountersAsAtStart(t) ==
    /\ trades' = loc[t].snap_trades
    /\ \A o \in Objs :
          /\ hs'[o].active_hedges = loc[t].snap_hs[o].active_hedges
          /\ hs'[o].last_hedge_time = loc[t].snap_hs[o].last_hedge_time

C15_ElasticDefense ==
    [][\A t \in Threads :
          (ElasticCase(t) /\ pc'[t] # pc[t]) =>
              /\ pc'[t] = "done"
              /\ ret'[t] = "False"
              /\ ~loc'[t].ordered
              /\ pending'[Symbol(t)] = 0
              /\ CountersAsAtStart(t)]_vars

\* C15 witness: a call whose trigger was a BUY with the oscillator at 25 has
\* returned False.
C15_Witness ==
    \E t \in Threads :
        /\ IsEZR(t)
        /\ pc[t] = "done"
        /\ ret[t] = "False"
        /\ loc[t].zone > 0
        /\ RawAction(arg[t], loc[t].zone, loc[t].hedge_level) = "BUY"
        /\ arg[t].rsi_value = Some(25)
        /\ pending[Symbol(t)] = 0

\* C16: every order passed to broker.execute_order has the side opposite to
\* that of the most recently opened position of the group.
OrderSide(t) == IF loc[t].action = "BUY" THEN 0 ELSE 1

C16_NoDoublingDown ==
    \A t \in Threads :
        pc[t] = "b_execute_order" =>
            /\ loc[t].action \in {"BUY", "SELL"}
            /\ OrderSide(t) # LastPos(arg[t].positions).type

\* C16 witness: a BUY order is at the broker for a group of two whose last
\* position is a SELL.
C16_Witness ==
    \E t \in Threads :
        /\ pc[t] = "b_execute_order"
        /\ Len(arg[t].positions) = 2
        /\ loc[t].action = "BUY"
        /\ LastPos(arg[t].positions).type = 1

\* C17: with the freshness gate enabled, a call to execute_zone_recovery
\* whose tick was stamped more than the maximum tick age (10 s) before the
\* gate looked at it submits no order: it returns False and the symbol's
\* pending marker is removed, whatever calls came before.
StaleAtGate(t) ==
    /\ IsEZR(t)
    /\ loc[t].freshness
    /\ loc[t].tick_ts > 0
    /\ loc[t].gated_at - loc[t].tick_ts > FreshTickMaxAge

C17_StaleTickNeverOrders ==
    \A t \in Threads :
        StaleAtGate(t) =>
            /\ pc[t] # "b_execute_order"
            /\ ~loc[t].ordered
            /\ (pc[t] = "done" /\ ret[t] \in {"True", "False"}) =>
                  (ret[t] = "False" /\ pending[Symbol(t)] = 0)

\* C18: a thread that is outside validate_hedge_conditions,
\* execute_zone_recovery's locked region and get_risk_status (it has finished
\* with a result or with an exception, or validate has handed its verdict
\* back to execute_zone_recovery) holds the lock of no HedgeState.
OutsideLockedRegions(t) == pc[t] \in {"idle", "done", "e_gate"}

C18_LockFreeAfterFinish ==
    \A t \in Threads :
        OutsideLockedRegions(t) => \A o \in Objs : lock[o] # t

\* C18 witness: validate_hedge_conditions ended with an exception of
\* broker.get_positions inside its locked region and the lock of the
\* symbol's HedgeState is free.
C18_Witness ==
    \E t \in Threads :
        /\ pc[t] = "done"
        /\ op[t] = "validate_hedge_conditions"
        /\ ret[t] = "raised"
        /\ loc[t].asked_positions
        /\ ~loc[t].asked_tick
        /\ loc[t].st \in Objs
        /\ lock[loc[t].st] = 0

\* C19: a register_toxic_asset call whose bucket id is already among the
\* toxic assets leaves their number and every stored record (positions,
\* frozen_time, initial_volume, status) as they were, whatever position list
\* the call carries.
ReRegisters ==
    /\ breg' # breg
    /\ \E i \in 1..Len(toxic_assets) : toxic_assets[i].bucket_id = breg'.bucket_id

C19_ReRegistrationKeepsRecord ==
    [][ReRegisters =>
          /\ Len(toxic_assets') = Len(toxic_assets)
          /\ \A i \in 1..Len(toxic_assets) : toxic_assets'[i] = toxic_assets[i]]_vars

\* C19 witness: the last call registered B1 with the positions 3 and 1 at a
\* later time, and the record of B1 still has the single position, the
\* frozen_time and the initial_volume of its first registration.
C19_Witness ==
    /\ breg = [bucket_id |-> "B1", positions |-> << 3, 1 >>]
    /\ \E i \in 1..Len(toxic_assets) :
          /\ toxic_assets[i].bucket_id = "B1"
          /\ toxic_assets[i].positions = << 1 >>
          /\ toxic_assets[i].frozen_time < now
          /\ toxic_assets[i].initial_volume = 20
          /\ toxic_assets[i].status = "FROZEN"
    /\ Len(toxic_assets) = 2

\* C20: while every required_tithe computed in a pass of
\* attempt_debt_reduction exceeds the pool's balance, the pass calls no
\* close_position and changes neither tithe_balance nor total_debt_repaid nor
\* any position's volume; a pass that ends so returns False.
EveryQuoteAboveBalance(l) ==
    /\ l.quotes # <<>>
    /\ \A i \in 1..Len(l.quotes) : l.quotes[i] > tithe_balance

C20_UnaffordablePassDoesNothing ==
    [][(bpc = "scan" /\ EveryQuoteAboveBalance(bloc')) =>
          /\ bpc' # "closing"
          /\ tithe_balance' = tithe_balance
          /\ total_debt_repaid' = total_debt_repaid
          /\ volume' = volume
          /\ bpc' = "done" => bret' = "False"]_vars

\* C20 witness: with 3.00 in the pool a pass has priced its only candidate at
\* 5.00 and ended with False, the pool, the repaid total and the volumes as
\* they were.
C20_Witness ==
    /\ bpc = "done"
    /\ bret = "False"
    /\ bloc.quotes = << 500 >>
    /\ tithe_balance = 300
    /\ total_debt_repaid = 0
    /\ volume = InitialVolume

\* C21: in a pass of attempt_debt_reduction every close_position call asks
\* for exactly the minimum increment, no position is asked for twice, and no
\* position's tracked volume is more than one increment below what it was
\* when the pass began.
InPass == bpc \in {"scan", "closing", "done"} /\ bloc.items # <<>>

Deposits == deposits' = deposits + 1

C22_DepositContract ==
    [][Deposits =>
          /\ IF bdep'.amount <= 0
             THEN /\ bdep'.returned = 0
                  /\ tithe_balance' = tithe_balance
                  /\ total_tithe_collected' = total_tithe_collected
             ELSE /\ bdep'.returned = bdep'.amount
                  /\ tithe_balance' = tithe_balance + bdep'.amount
                  /\ total_tithe_collected' = total_tithe_collected + bdep'.amount
          /\ total_debt_repaid' = total_debt_repaid
          /\ toxic_assets' = toxic_assets]_vars

\* C22 witness: after a deposit of 3.00, a deposit of -1.00 has returned 0 and
\* the pool and the lifetime counter hold the 3.00.
C22_Witness ==
    /\ deposits = 2
    /\ bdep = [amount |-> 0 - 100, returned |-> 0]
    /\ tithe_balance = 300
    /\ total_tithe_collected = 300
    /\ toxic_assets # <<>>

\* C23: every registered toxic asset has at least one member position.
C23_NoEmptyAsset ==
    \A i \in 1..Len(toxic_assets) : toxic_assets[i].positions # <<>>

\* C24: when the sizing collaborator decides to hedge and its target size
\* less the volume already held on the side of the proposed order is below
\* 0.01 lot, execute_zone_recovery returns True with no order sent and no
\* hedge recorded, the hedge levels, last_hedge_time and active_hedges as they
\* were when the call began, and the symbol's pending marker removed.
SmallLot(t) ==
    /\ IsEZR(t)
    /\ pc[t] = "b_get_account_info"
    /\ pc'[t] # pc[t]
    /\ loc'[t].should_hedge
    /\ loc'[t].hedge_size - FriendlyVolume(arg[t], loc[t].action) < 10

C24_SmallLotIsSuccess ==
    [][\A t \in Threads :
          SmallLot(t) =>
              /\ pc'[t] = "done"
              /\ ret'[t] = "True"
              /\ ~loc'[t].ordered
              /\ pending'[Symbol(t)] = 0
              /\ CountersAsAtStart(t)]_vars

\* C24 witness: a call for a BUY and a SELL of 0.01 lot each, whose trigger
\* was a BUY and whose target size was 0.005 lot, has returned True with no
\* order sent.
C24_Witness ==
    \E t \in Threads :
        /\ IsEZR(t)
        /\ pc[t] = "done"
        /\ ret[t] = "True"
        /\ loc[t].action = "BUY"
        /\ loc[t].should_hedge
        /\ loc[t].hedge_size = 5
        /\ FriendlyVolume(arg[t], "BUY") = 10
        /\ ~loc[t].ordered
        /\ pending[Symbol(t)] = 0

\* C25: after every call of the analyzer, add_tick with or without a
\* positive bid and get_pressure_metrics alike, the tick window holds only
\* samples taken within window_seconds of the time of the call, oldest first.
WindowFreshAt(tnow) ==
    /\ \A i \in 1..Len(ticks) : tnow - ticks[i].time <= window_seconds
    /\ \A i, j \in 1..Len(ticks) : i < j => ticks[i].time <= ticks[j].time

C25_WindowAlwaysFresh ==
    tp_call.op \in {"add_tick", "get_pressure_metrics"} => WindowFreshAt(tp_call.at)

\* C26: calculate_vpin returns exactly 0 when the two volume buffers hold
\* fewer than 15 entries together, and |buy - sell| / total when they hold 15
\* or more and the total volume is positive.
VpinAsked == tp_call.op = "calculate_vpin"

C26_VpinNeedsFifteenSamples ==
    VpinAsked =>
        LET buy_vol == SumSeq(buy_volume_buffer)
            sell_vol == SumSeq(sell_volume_buffer)
            entries == Len(buy_volume_buffer) + Len(sell_volume_buffer)
        IN /\ entries < 15 => tp_call.num = 0
           /\ (entries >= 15 /\ buy_vol + sell_vol > 0) =>
                 /\ tp_call.den = buy_vol + sell_vol
                 /\ tp_call.num = Abs(buy_vol - sell_vol)

\* C26 witness: after three calls the buffers hold 8 and 7 entries of unequal
\* total volume and calculate_vpin has returned their imbalance, above 0.
C26_Witness ==
    /\ VpinAsked
    /\ tp_calls = 3
    /\ Len(buy_volume_buffer) = 8
    /\ Len(sell_volume_buffer) = 7
    /\ tp_call.num = Abs(SumSeq(buy_volume_buffer) - SumSeq(sell_volume_buffer))
    /\ tp_call.num > 0
    /\ tp_call.den = SumSeq(buy_volume_buffer) + SumSeq(sell_volume_buffer)

\* C27: of the levels handed to _cluster_levels, any two that lie within
\* 0.05% of each other are members of the same wall, whatever other levels
\* the list holds.
Clustered == fn_pc = "_cluster_levels"

SameWall(a, b) ==
    \E i \in 1..Len(fn_out.clusters) :
        /\ \E k \in 1..Len(fn_out.clusters[i]) : fn_out.clusters[i][k] = a
        /\ \E k \in 1..Len(fn_out.clusters[i]) : fn_out.clusters[i][k] = b

C27_CloseLevelsShareWall ==
    Clustered =>
        \A i, j \in 1..Len(fn_in.levels) :
            LET a == fn_in.levels[i]
                b == fn_in.levels[j]
            IN (a <= b /\ (b - a) * 10000 <= a * 5) => SameWall(a, b)

\* C28: should_avoid_entry blocks a BUY exactly when a resistance wall of
\* strength 2 or more lies above the price by less than 0.03% of it, blocks a
\* SELL exactly when such a support wall lies below the price by less than
\* that, and blocks nothing for any other action.
Avoided == fn_pc = "should_avoid_entry"

CloseStrongWall(walls, price, sign) ==
    \E i \in 1..Len(walls) :
        /\ walls[i].strength >= 2
        /\ sign * (walls[i].price - price) > 0
        /\ sign * (walls[i].price - price) * 10000 < price * 3

C28_BlocksIffCloseStrongWall ==
    Avoided =>
        (fn_out.blocked <=>
            \/ /\ fn_in.action = "BUY"
               /\ CloseStrongWall(fn_in.liquidity_map.resistances, fn_in.current_price, 1)
            \/ /\ fn_in.action = "SELL"
               /\ CloseStrongWall(fn_in.liquidity_map.supports, fn_in.current_price, 0 - 1))

\* C28 witness: a BUY at 10000.00 is blocked by the second of two resistance
\* walls, at 10002.00 with strength 2, the first lying at exactly 0.03%.
C28_Witness ==
    /\ Avoided
    /\ fn_in.action = "BUY"
    /\ fn_in.liquidity_map.resistances =
          << [price |-> 1000300, strength |-> 2], [price |-> 1000200, strength |-> 2] >>
    /\ fn_out.blocked

\* C29: when the volatility multiplier is at most 1.1 and the ATR is at most
\* 50 pips, calculate_zone_parameters returns a zone of exactly 20 pips for a
\* group of one, 30 for a group of two and 50 for a group of three or more;
\* when the ATR is at most 20 pips the take-profit width equals the zone.
Zoned == fn_pc = "calculate_zone_parameters"

Unadjusted(a) ==
    /\ AdaptiveZoneMult(a.symbol, AtrOrZero(a)) <= 1100
    /\ AtrPipsMilli(a.symbol, AtrOrZero(a)) <= 50000

C29_BaseZoneByGroupSize ==
    Zoned =>
        /\ Unadjusted(fn_in) =>
              fn_out.zone_width = (IF Len(fn_in.positions) = 1 THEN 20000
                                   ELSE IF Len(fn_in.positions) = 2 THEN 30000
                                   ELSE 50000)
        /\ AtrPipsMilli(fn_in.symbol, AtrOrZero(fn_in)) <= 20000 =>
              fn_out.tp_width = fn_out.zone_width

\* C29 witness: a group of three with an ATR of exactly 50 pips has a zone of
\* 50 pips and a take-profit width above it.
C29_Witness ==
    /\ Zoned
    /\ fn_in.symbol = "XAUUSD"
    /\ Len(fn_in.positions) = 3
    /\ fn_in.atr_val = Some(50)
    /\ fn_out.zone_width = 50000
    /\ fn_out.tp_width = 55000

\* C30: retry_with_backoff invokes the operation at most max_attempts times,
\* an invocation that reported success or that failed with retcode 10036 is
\* the last one and its result is returned with True or False, and True is
\* returned only when some invocation reported success.
Retrying == fn_pc \in {"loop", "returned"}

Succeeded(c) == ~c.raised /\ c.success

GoneFailure(c) ==
    /\ ~c.raised /\ ~c.success
    /\ c.result # None
    /\ c.result[1].retcode = 10036

C30_RetryStopsOnSuccessOrGone ==
    Retrying =>
        /\ Len(fn_out.calls) <= fn_in.max_attempts
        /\ \A i \in 1..Len(fn_out.calls) :
              (Succeeded(fn_out.calls[i]) \/ GoneFailure(fn_out.calls[i])) =>
                  /\ i = Len(fn_out.calls)
                  /\ fn_pc = "returned"
                  /\ fn_out.returned =
                        <<[ok |-> Succeeded(fn_out.calls[i]), result |-> fn_out.calls[i].result]>>
        /\ (fn_pc = "returned" /\ fn_out.returned[1].ok) =>
              \E i \in 1..Len(fn_out.calls) : Succeeded(fn_out.calls[i])

\* C30 witness: with three attempts allowed the first invocation fails with
\* another retcode, the second fails with retcode 10036, and the call has
\* returned False with that result after two invocations.
C30_Witness ==
    /\ fn_pc = "returned"
    /\ fn_in.max_attempts = 3
    /\ Len(fn_out.calls) = 2
    /\ ~fn_out.calls[1].raised /\ ~fn_out.calls[1].success
    /\ fn_out.calls[1].result = <<[retcode |-> 10035]>>
    /\ GoneFailure(fn_out.calls[2])
    /\ fn_out.returned = <<[ok |-> FALSE, result |-> <<[retcode |-> 10036]>>]>>

\* C31: an evaluation that reaches the volatility update sets high_vol_mode
\* when the ratio is at least 2.5, clears it when the ratio is at most 2.0
\* and keeps high_vol_mode and volatility_scale for a ratio in between;
\* nothing else changes the mode; volatility_scale lies in [1, 1.25] and is
\* 1.0 whenever high_vol_mode is false.
Updates(t) == pc[t] = "e_vol" /\ pc'[t] # "e_vol"

ScaleInRange(h) ==
    /\ h.volatility_scale >= 1000
    /\ h.volatility_scale <= 1250
    /\ ~h.high_vol_mode => h.volatility_scale = 1000

C31_VolatilityHysteresis ==
    [][/\ \A o \in Objs : ScaleInRange(hs[o]) /\ ScaleInRange(hs'[o])
       /\ \A o \in Objs :
             hs'[o].high_vol_mode # hs[o].high_vol_mode =>
                \E t \in Threads : Updates(t) /\ loc[t].st = o
       /\ \A t \in Threads :
             Updates(t) =>
                LET o == loc[t].st
                    ratio == arg[t].volatility_ratio
                IN /\ ratio >= 250 => hs'[o].high_vol_mode
                   /\ ratio <= 200 => ~hs'[o].high_vol_mode
                   /\ (ratio > 200 /\ ratio < 250) =>
                         /\ hs'[o].high_vol_mode = hs[o].high_vol_mode
                         /\ hs'[o].volatility_scale = hs[o].volatility_scale]_vars

\* C31 witness: after an evaluation at ratio 3.0 the next one, at ratio 2.25,
\* has passed the update and the state is still in high-volatility mode with
\* the scale of the first.
C31_Witness ==
    \E t \in Threads :
        /\ pc[t] = "e_trigger"
        /\ arg[t].volatility_ratio = 225
        /\ calls = 2
        /\ hs[loc[t].st].high_vol_mode
        /\ hs[loc[t].st].volatility_scale = 1203

\* C32: when the plan holds a positive trigger price for the current hedge
\* level, the hedge of that level (the side opposite to the last position)
\* fires exactly when the quote has reached the stored price, whatever the
\* freshly computed boundary is, for both anchor sides and every level.
Triggered == fn_pc = "trigger"

PlannedSide(a) == IF LastPos(a.positions).type = 0 THEN "SELL" ELSE "BUY"

ReachedStored(a) ==
    IF PlannedSide(a) = "SELL"
    THEN a.bid * 1000 <= a.plan_trigger * 1000 + 100
    ELSE a.ask * 1000 >= a.plan_trigger * 1000 - 100

C32_StoredTriggerIsTheBoundary ==
    (Triggered /\ fn_in.plan_trigger > 0) =>
        fn_out.action = (IF ReachedStored(fn_in) THEN PlannedSide(fn_in) ELSE "none")

\* C33: a pass that has begun does not end before every bucket it listed
\* that holds a position of volume 0.01 or more has been visited, also when
\* an earlier bucket of the pass was nibbled.
PassEnded == bpc = "done" /\ bloc.items # <<>>

HoldsCandidate(b) ==
    /\ IsRegistered(b)
    /\ \E k \in 1..Len(toxic_assets[AssetIndex(b)].positions) :
          volume[toxic_assets[AssetIndex(b)].positions[k]] >= NIBBLE_SIZE

C33_PassVisitsEveryBucket ==
    PassEnded =>
        \A k \in 1..Len(bloc.items) : HoldsCandidate(bloc.items[k]) => k <= bloc.idx

\* C34: when the estimated P&L of the increment is not negative the close
\* is requested whatever the pool holds, and its confirmation leaves
\* tithe_balance and total_debt_repaid as they are and takes 0.01 off the
\* position's tracked volume.
Quotes == bpc = "scan" /\ Len(bloc'.quotes) > Len(bloc.quotes)

ConfirmedClose == bpc = "closing" /\ bpc' = "done" /\ bret' = "True"

RateAsked == tp_call.op = "calculate_reaction_rate"

C35_ReactionRateIsVelocity ==
    RateAsked => tp_call.num * Velocity(ticks).den = Velocity(ticks).num * tp_call.den

\* C36: analyze_order_flow takes a tick whose last-traded price is zero or
\* absent as a quote update and puts its volume on the side of the change of
\* the mid-price (both sides when it did not change or there was none
\* before); a tick with a nonzero last-traded price goes to the buyers when
\* that price is at or above the ask, to the sellers when at or below the
\* bid, and to both sides otherwise.
ClaimedSide(tick, prev) ==
    LET mid == tick.bid + tick.ask
    IN IF IsNone(tick.last) \/ Val(tick.last) = 0
       THEN (IF mid > prev THEN 0 ELSE IF mid < prev THEN 1 ELSE 2)
       ELSE (IF Val(tick.last) >= tick.ask THEN 0
             ELSE IF Val(tick.last) <= tick.bid THEN 1 ELSE 2)

ClassifiedAs(side, vol) ==
    /\ buy_volume_buffer' =
          (IF side = 0 THEN BufferAppend(buy_volume_buffer, 2 * vol)
           ELSE IF side = 2 THEN BufferAppend(buy_volume_buffer, vol)
           ELSE buy_volume_buffer)
    /\ sell_volume_buffer' =
          (IF side = 1 THEN BufferAppend(sell_volume_buffer, 2 * vol)
           ELSE IF side = 2 THEN BufferAppend(sell_volume_buffer, vol)
           ELSE sell_volume_buffer)

C36_QuoteUpdatesFollowMidPrice ==
    [][\A tick \in FlowTicks :
          (~tick.none /\ analyze_order_flow(tick)) =>
              ClassifiedAs(ClaimedSide(tick, IF IsNone(prev_mid) THEN tick.bid + tick.ask
                                             ELSE Val(prev_mid)),
                           tick.volume)]_vars

\* C37: with no reset at all, once an execute_zone_recovery call has had its
\* hedge order confirmed and has returned True, the HedgeState that the
\* symbol's next reader gets holds that hedge: the time recorded for it and
\* a count of at least one.
ReturnedHedged(t) == IsEZR(t) /\ pc[t] = "done" /\ ret[t] = "True" /\ loc[t].ticket

C37_ConfirmedHedgeIsVisible ==
    \A t \in Threads :
        ReturnedHedged(t) =>
            /\ hedge_states[Symbol(t)] # 0
            /\ hs[hedge_states[Symbol(t)]].last_hedge_time = hs[loc[t].st].last_hedge_time
            /\ hs[hedge_states[Symbol(t)]].active_hedges >= 1

RecordsHedge(t) == pc[t] = "e_last_hedge_time" /\ pc'[t] # "e_last_hedge_time"

SinceLastHedge(t) == hs'[loc[t].st].last_hedge_time - hs[loc[t].st].last_hedge_time

C39_LedgerIdentity ==
    /\ [](tithe_balance = total_tithe_collected - total_debt_repaid)
    /\ [][/\ total_tithe_collected' >= total_tithe_collected
          /\ total_debt_repaid' >= total_debt_repaid]_vars

\* a deposit was accepted and part of it has paid for a closed increment
C39_Witness ==
    /\ total_debt_repaid > 0
    /\ tithe_balance > 0
    /\ total_tithe_collected > tithe_balance

\* C40: with whole increments, a broker that always quotes and confirms and
\* a candidate within the pool on every pass, a ledger that holds toxic
\* assets is emptied by the repeated passes, and a pass then returns False.
C40_LedgerIsLiquidated ==
    (toxic_assets # <<>>) ~> (toxic_assets = <<>> /\ bpc = "done" /\ bret = "False")

\* both groups were registered and closed out increment by increment, part
\* of it paid from the pool, and the pass on the empty ledger has returned
C40_Witness ==
    /\ toxic_assets = <<>> /\ bpc = "done" /\ bret = "False"
    /\ volume[1] = 0 /\ volume[2] = 0
    /\ total_debt_repaid > 0

====
